---- MODULE Spec2Model ----
(***************************************************************************)
(* A model of the DEFLATE inflater of the gzip crate: the bit vector       *)
(* (src/src/bits.rs), the canonical prefix tree (src/src/prefix.rs) and    *)
(* DeflateData::decompress with its three block decoders                   *)
(* (src/src/inflate.rs).                                                   *)
(*                                                                         *)
(* Conventions.  A u8/u16/usize value is an integer.  A u64 word is a      *)
(* sequence of 64 bits, most significant bit first (position p holds bit   *)
(* 64 - p), because a u64 does not fit a 32-bit integer.                   *)
(* Sequences are 1-based, so a Rust index i is position i + 1.             *)
(***************************************************************************)
EXTENDS Integers, Sequences, FiniteSets, TLC

(***************************************************************************)
(* Bounds of the explored inputs.                                          *)
(***************************************************************************)
\* Longest run of literals at the start of a Huffman block body.
MaxLits == 2
\* Longest data of a stored block.
MaxStored == 2
\* Number of times decompress is called on one DeflateData value.
MaxCalls == 2
\* The most bytes cut from the end of a payload.
MaxCut == 2
\* The most symbols of a code-length vector given to from_lengths.
MaxSymbols == 4
\* The most calls of walk on one tree.
MaxWalk == 4

\* The most calls on one BitStream.
MaxPushes == 3

\* The most calls of push_bit and pop_front on one BitVector64, after those
\* that filled it.
MaxBitCalls == 4

(***************************************************************************)
(* Integer helpers for the fixed-width arithmetic of the code.             *)
(***************************************************************************)
Bit(x, i) == (x \div (2 ^ i)) % 2

\* uN::reverse_bits for a value x of width w.
RECURSIVE reverse_bits(_, _)
reverse_bits(x, w) ==
    IF w = 0 THEN 0 ELSE (x % 2) * (2 ^ (w - 1)) + reverse_bits(x \div 2, w - 1)

\* The bitwise complement of a u16 (the ! operator).
Not16(x) == 65535 - x

Min(a, b) == IF a < b THEN a ELSE b

(***************************************************************************)
(* u64 words.                                                              *)
(***************************************************************************)
U64Zero == [p \in 1..64 |-> 0]

\* A value below 2^31 widened to a u64 (byte as u64).
U64(x) == [p \in 1..64 |-> IF 64 - p < 31 THEN Bit(x, 64 - p) ELSE 0]

\* w << k and w >> k for 0 <= k < 64.
Shl64(w, k) == [p \in 1..64 |-> IF p + k <= 64 THEN w[p + k] ELSE 0]
Shr64(w, k) == [p \in 1..64 |-> IF p - k >= 1 THEN w[p - k] ELSE 0]
Or64(a, b) == [p \in 1..64 |-> IF a[p] = 1 \/ b[p] = 1 THEN 1 ELSE 0]

(***************************************************************************)
(* BitVector64 (src/src/bits.rs): [buffer, len, idx].                      *)
(***************************************************************************)
\* BitVector64::new
BitVector64_new == [buffer |-> <<U64Zero>>, len |-> 0, idx |-> 0]

\* BitVector64::push_buffer, for 1 <= len <= 64 with the shift amounts
\* 64 - len and 64 - bit_idx below 64 (every call of from_be_bytes).
\* The result is [err, bv].
push_buffer(bv, buffer, len) ==
    IF len > 64 THEN [err |-> TRUE, bv |-> bv]
    ELSE LET bit_idx == bv.len % 64
             buf_idx == Len(bv.buffer)
             shifted_buffer == Shl64(buffer, 64 - len)
             merged == [bv.buffer EXCEPT
                          ![buf_idx] = Or64(@, Shr64(shifted_buffer, bit_idx))]
         IN  IF bit_idx + len >= 64
             THEN [err |-> FALSE,
                   bv |-> [buffer |-> Append(merged,
                                             Shl64(shifted_buffer, 64 - bit_idx)),
                           len |-> bv.len + len,
                           idx |-> bv.idx]]
             ELSE [err |-> FALSE,
                   bv |-> [buffer |-> merged,
                           len |-> bv.len + len,
                           idx |-> bv.idx]]

\* BitVector64::from_be_bytes: every byte bit-reversed, then pushed as 8 bits.
\* The loop over raw[lo..hi] is split in halves, which keeps the evaluation
\* shallow; the pushes happen in the order of the bytes.  (Here and in the
\* other split loops the test on the first half only makes the evaluation
\* finish that half before it enters the second; it is always true.)
RECURSIVE from_be_bytes_range(_, _, _, _)
from_be_bytes_range(raw, lo, hi, bv) ==
    IF lo > hi THEN bv
    ELSE IF lo = hi
    THEN push_buffer(bv, U64(reverse_bits(raw[lo], 8)), 8).bv
    ELSE LET mid == (lo + hi) \div 2
             first == from_be_bytes_range(raw, lo, mid, bv)
         IN  IF first.len >= 0
             THEN from_be_bytes_range(raw, mid + 1, hi, first)
             ELSE first

\* BitVector64::from_le_bytes: every byte pushed as it is.
RECURSIVE from_le_bytes_range(_, _, _, _)
from_le_bytes_range(raw, lo, hi, bv) ==
    IF lo > hi THEN bv
    ELSE IF lo = hi
    THEN push_buffer(bv, U64(raw[lo]), 8).bv
    ELSE LET mid == (lo + hi) \div 2
             first == from_le_bytes_range(raw, lo, mid, bv)
         IN  IF first.len >= 0
             THEN from_le_bytes_range(raw, mid + 1, hi, first)
             ELSE first

from_le_bytes(raw) == from_le_bytes_range(raw, 1, Len(raw), BitVector64_new)

from_be_bytes(raw) == from_be_bytes_range(raw, 1, Len(raw), BitVector64_new)

\* The bit the iterator yields at cursor i (Iterator::next reads
\* buffer[i / 64] >> (63 - i % 64)); defined for i < len.
BitOf(bv, i) == bv.buffer[(i \div 64) + 1][(i % 64) + 1]

\* BitVector64::push_bit, lines 94-115.  The word for the bits to come is
\* pushed before the bit is looked at.  [err, bv].
push_bit(bv, bit) ==
    LET bit_idx == bv.len % 64
        buf_idx == Len(bv.buffer)
        grown == IF bit_idx >= 63 THEN Append(bv.buffer, U64Zero) ELSE bv.buffer
    IN  IF bit = 0
        THEN [err |-> FALSE, bv |-> [bv EXCEPT !.buffer = grown, !.len = @ + 1]]
        ELSE IF bit = 1
        THEN [err |-> FALSE,
              bv |-> [bv EXCEPT !.buffer = [grown EXCEPT ![buf_idx][bit_idx + 1] = 1],
                                !.len = @ + 1]]
        ELSE [err |-> TRUE, bv |-> [bv EXCEPT !.buffer = grown]]

\* BitVector64::pop_front, lines 164-178.  With idx at 64 the first word is
\* removed and the call made again; buffer[0] of an empty buffer panics.
\* [panic, some, bit, bv].
RECURSIVE pop_front(_)
pop_front(bv) ==
    IF bv.len = 0
    THEN [panic |-> FALSE, some |-> FALSE, bit |-> 0, bv |-> bv]
    ELSE IF bv.idx < 64
    THEN IF bv.buffer = <<>>
         THEN [panic |-> TRUE, some |-> FALSE, bit |-> 0, bv |-> bv]
         ELSE [panic |-> FALSE, some |-> TRUE, bit |-> bv.buffer[1][bv.idx + 1],
               bv |-> [bv EXCEPT !.buffer[1][bv.idx + 1] = 0,
                                 !.len = @ - 1,
                                 !.idx = @ + 1]]
    ELSE pop_front([bv EXCEPT !.buffer = Tail(@), !.idx = 0])

\* Iterator::next for BitVector64: [some, bit, bv].
BitVector64_next(bv) ==
    IF bv.idx < bv.len
    THEN [some |-> TRUE, bit |-> BitOf(bv, bv.idx),
          bv |-> [bv EXCEPT !.idx = @ + 1]]
    ELSE [some |-> FALSE, bit |-> 0, bv |-> bv]

(***************************************************************************)
(* The constant tables of src/src/prefix.rs.                               *)
(***************************************************************************)
\* FIXED_CODE_LENGTHS: 144 times 8, 112 times 9, 24 times 7, 8 times 8.
FIXED_CODE_LENGTHS ==
    [s \in 1..288 |-> IF s <= 144 THEN 8
                      ELSE IF s <= 256 THEN 9
                      ELSE IF s <= 280 THEN 7 ELSE 8]

LENGTH_CODES == [k \in 1..29 |-> 256 + k]

LENGTH_EXTRA_BITS ==
    <<0, 0, 0, 0, 0, 0, 0, 0, 1, 1, 1, 1, 2, 2, 2, 2, 3, 3, 3, 3,
      4, 4, 4, 4, 5, 5, 5, 5, 0>>

LENGTH_BASE ==
    <<3, 4, 5, 6, 7, 8, 9, 10, 11, 13, 15, 17, 19, 23, 27, 31, 35, 43, 51, 59,
      67, 83, 99, 115, 131, 163, 195, 227, 258>>

DISTANCE_CODES == [k \in 1..30 |-> k - 1]

DISTANCE_EXTRA_BITS ==
    <<0, 0, 0, 0, 1, 1, 2, 2, 3, 3, 4, 4, 5, 5, 6, 6, 7, 7, 8, 8,
      9, 9, 10, 10, 11, 11, 12, 12, 13, 13>>

DISTANCE_BASE ==
    <<1, 2, 3, 4, 5, 7, 9, 13, 17, 25, 33, 49, 65, 97, 129, 193, 257, 385,
      513, 769, 1025, 1537, 2049, 3073, 4097, 6145, 8193, 12289, 16385, 24577>>

\* HashMap::get on a map built from a table of keys: the position of the
\* key in the table, 0 when the key is absent (None).
TableIndex(keys, key) ==
    IF \E k \in 1..Len(keys) : keys[k] = key
    THEN CHOOSE k \in 1..Len(keys) : keys[k] = key
    ELSE 0

(***************************************************************************)
(* PrefixTree (src/src/prefix.rs).                                         *)
(*                                                                         *)
(* The boxed nodes are an arena indexed by the path from the root: the     *)
(* root is node 1 and the child of node n in direction d is node 2n + d.   *)
(* nodes[n] is Absent when the tree has no such node, NoValue for a node   *)
(* whose value is None, and v >= 0 for a node whose value is Some(v).      *)
(* current is the node the walker stands on (the code keeps a clone of     *)
(* that subtree).                                                          *)
(***************************************************************************)
Absent == 0 - 2
NoValue == 0 - 1
Root == 1

\* PrefixTree::new, with room for codes of up to depth bits.
PrefixTree_new(depth) ==
    [nodes |-> [n \in 1..(2 ^ (depth + 1) - 1) |-> IF n = Root THEN NoValue ELSE Absent],
     current |-> Root]

\* The index-th bit (1-based) the Code iterator yields:
\* (buffer >> (length - index)) & 1.
Code_bit(buffer, length, index) == Bit(buffer, length - index)

\* The loop of insert_code: creates the missing nodes along the code, then
\* stores the value at the last one.
RECURSIVE insert_code_from(_, _, _, _, _, _)
insert_code_from(nodes, cur, buffer, length, index, value) ==
    IF index > length THEN [nodes EXCEPT ![cur] = value]
    ELSE LET child == 2 * cur + Code_bit(buffer, length, index)
             made == IF nodes[child] = Absent
                     THEN [nodes EXCEPT ![child] = NoValue]
                     ELSE nodes
         IN  insert_code_from(made, child, buffer, length, index + 1, value)

\* PrefixTree::insert_code
insert_code(tree, buffer, length, value) ==
    [nodes |-> insert_code_from(tree.nodes, Root, buffer, length, 1, value),
     current |-> Root]

\* The occurances array of from_lengths, with occurances[0] forced to 0.
occurances(code_lengths, n) ==
    IF n = 0 THEN 0
    ELSE Cardinality({j \in 1..Len(code_lengths) : code_lengths[j] = n})

\* max_length of from_lengths (0 for an empty slice).
max_length(code_lengths) ==
    LET lens == {code_lengths[j] : j \in 1..Len(code_lengths)}
    IN  IF lens = {} THEN 0 ELSE CHOOSE m \in lens : \A x \in lens : x <= m

\* The first loop of from_lengths: next_code[i] for i = 1..max_length,
\* code = (code + occurances[i - 1]) << 1.  The u32 cannot overflow: with
\* lengths of at most 15 and fewer than 2^9 symbols every code is below 2^25.
RECURSIVE next_code_from(_, _, _, _, _)
next_code_from(code_lengths, maxlen, i, code, acc) ==
    IF i > maxlen THEN acc
    ELSE LET c == (code + occurances(code_lengths, i - 1)) * 2
         IN  next_code_from(code_lengths, maxlen, i + 1, c, Append(acc, c))

\* The round without next_code[len] += 1.
assign_code_without_increment(code_lengths, j, st) ==
    [next_code |-> st.next_code,
     codes |-> Append(st.codes, IF code_lengths[j] # 0
                                THEN st.next_code[code_lengths[j]]
                                ELSE NoValue)]

\* One round of the second loop of from_lengths: codes[j] = next_code[len],
\* then next_code[len] += 1; NoValue stands for None.
assign_code(code_lengths, j, st) ==
    LET len == code_lengths[j]
    IN  IF len # 0
        THEN [next_code |-> [st.next_code EXCEPT ![len] = @ + 1],
              codes |-> Append(st.codes, st.next_code[len])]
        ELSE [next_code |-> st.next_code,
              codes |-> Append(st.codes, NoValue)]

\* The second loop of from_lengths over the symbols lo..hi, in order (split
\* in halves to keep the evaluation shallow).
RECURSIVE assign_codes(_, _, _, _)
assign_codes(code_lengths, lo, hi, st) ==
    IF lo > hi THEN st
    ELSE IF lo = hi THEN assign_code(code_lengths, lo, st)
    ELSE LET mid == (lo + hi) \div 2
             first == assign_codes(code_lengths, lo, mid, st)
         IN  IF Len(first.codes) >= 0
             THEN assign_codes(code_lengths, mid + 1, hi, first)
             ELSE first

\* The third loop of from_lengths: insert_code for every symbol with a code,
\* in symbol order (symbol = index j - 1).
RECURSIVE insert_codes(_, _, _, _, _)
insert_codes(code_lengths, codes, lo, hi, tree) ==
    IF lo > hi THEN tree
    ELSE IF lo = hi
    THEN IF codes[lo] # NoValue
         THEN insert_code(tree, codes[lo], code_lengths[lo], lo - 1)
         ELSE tree
    ELSE LET mid == (lo + hi) \div 2
             first == insert_codes(code_lengths, codes, lo, mid, tree)
         IN  IF first.current = Root
             THEN insert_codes(code_lengths, codes, mid + 1, hi, first)
             ELSE first

\* The codes vector of from_lengths after its first two loops.
codes_of(code_lengths) ==
    assign_codes(code_lengths, 1, Len(code_lengths),
                 [next_code |-> next_code_from(code_lengths,
                                               max_length(code_lengths), 1, 0, <<>>),
                  codes |-> <<>>]).codes

\* PrefixTree::from_lengths
from_lengths(code_lengths) ==
    insert_codes(code_lengths, codes_of(code_lengths), 1, Len(code_lengths),
                 PrefixTree_new(max_length(code_lengths)))

\* A walk that stays on the node of the value it returns.
walk_without_reset(tree, direction) ==
    LET child == 2 * tree.current + direction
    IN  IF child <= Len(tree.nodes) /\ tree.nodes[child] # Absent
        THEN [symbol |-> tree.nodes[child],
              tree |-> [tree EXCEPT !.current = child]]
        ELSE [symbol |-> NoValue, tree |-> tree]

\* PrefixTree::walk: [symbol, tree], symbol = NoValue for None.  A missing
\* child leaves the walker where it is.
walk(tree, direction) ==
    LET child == 2 * tree.current + direction
    IN  IF child <= Len(tree.nodes) /\ tree.nodes[child] # Absent
        THEN IF tree.nodes[child] # NoValue
             THEN [symbol |-> tree.nodes[child],
                   tree |-> [tree EXCEPT !.current = Root]]
             ELSE [symbol |-> NoValue,
                   tree |-> [tree EXCEPT !.current = child]]
        ELSE [symbol |-> NoValue, tree |-> tree]

\* The tree block_type_1 builds on every call; it is the same every time.
FixedTree == from_lengths(FIXED_CODE_LENGTHS)

(***************************************************************************)
(* The state of a DeflateData value and of a run of decompress on it.      *)
(***************************************************************************)
VARIABLES
    compressed,       \* DeflateData.compressed: the payload bytes
    decompressed,     \* DeflateData.decompressed
    bitstream,        \* DeflateData.bitstream: a BitVector64
    finished,         \* DeflateData.finished
    overflow_checks,  \* the build: TRUE checks integer overflow (debug),
                      \* FALSE wraps (release)
    pc,               \* where decompress stands: "idle" (not called, or
                      \* returned), "loop" (the while test), "block_type_0",
                      \* "block_type_1", "block_type_2", "dead" (panicked),
                      \* "spin" (in a loop that never ends)
    result,           \* what the last call returned: "none", "Ok",
                      \* "InvalidBlockError", "InvalidSymbolError", "Panic"
    returned,         \* the value of the last Ok
    calls,            \* the number of calls of decompress so far
    input,            \* the blocks the payload was made of (never changes)
    headers,          \* history: the block headers read, [at, bfinal, btype]
    blocks,           \* history: what every block decoder did
    outcomes,         \* history: what every call that returned returned
    gz_bytes,         \* the bytes argument of GzipHeader::build
    gz_header,        \* what GzipHeader::build returned, status "none" before
    pt_lengths,       \* the code_lengths argument of PrefixTree::from_lengths
    pt_tree,          \* the PrefixTree built from them and then walked
    pt_fed,           \* history: the bits given to PrefixTree::walk
    pt_walked,        \* history: what every call of walk returned
    bit_vector,       \* a BitVector64 of its own
    bv_made,          \* how it was made: "from_be_bytes", "push_bit", "none"
    bv_raw,           \* the raw argument of BitVector64::from_be_bytes
    bv_pushed,        \* history: the bits push_bit was given and took
    bv_calls,         \* history: the calls made on it and what they returned
    bit_stream,       \* a BitStream (src/src/bitstream.rs)
    bs_calls          \* history: the calls made on it

\* The state of a DeflateData value and its run.
inflate_vars == <<compressed, decompressed, bitstream, finished,
                  overflow_checks, pc, result, returned, calls, input,
                  headers, blocks, outcomes>>

\* The state of a call of GzipHeader::build.
gzip_vars == <<gz_bytes, gz_header>>

\* The state of a PrefixTree and its walk.
prefix_vars == <<pt_lengths, pt_tree, pt_fed, pt_walked>>

\* The state of a BitVector64 pushed to, popped and iterated.
bitvec_vars == <<bit_vector, bv_made, bv_raw, bv_pushed, bv_calls>>

\* The state of a BitStream.
stream_vars == <<bit_stream, bs_calls>>

vars == <<compressed, decompressed, bitstream, finished, overflow_checks, pc,
          result, returned, calls, input, headers, blocks, outcomes,
          gz_bytes, gz_header, pt_lengths, pt_tree, pt_fed, pt_walked,
          bit_vector, bv_made, bv_raw, bv_pushed, bv_calls, bit_stream,
          bs_calls>>

\* No header is being parsed.
NoGzip == gz_bytes = <<>> /\ gz_header = [status |-> "none"]

\* No tree has been built.
NoPrefixTree ==
    pt_lengths = <<>> /\ pt_tree = "none" /\ pt_fed = <<>> /\ pt_walked = <<>>

\* No bit vector of its own has been made.
NoBitVector ==
    /\ bit_vector = BitVector64_new
    /\ bv_made = "none"
    /\ bv_raw = <<>>
    /\ bv_pushed = <<>>
    /\ bv_calls = <<>>

\* No BitStream has been made.
NoBitStream == bit_stream = [status |-> "none"] /\ bs_calls = <<>>

(***************************************************************************)
(* Reading bits off the bitstream.  The cursor i is threaded through the   *)
(* operators; the buffer and len never change during a decode.             *)
(***************************************************************************)
\* The fold (acc << 1) | bit over the bits at cursors i .. i + n - 1.
RECURSIVE fold_bits(_, _, _, _)
fold_bits(bv, i, n, acc) ==
    IF n = 0 THEN acc
    ELSE fold_bits(bv, i + 1, n - 1, acc * 2 + BitOf(bv, i))

\* by_ref().take(n).fold(0, |acc, bit| (acc << 1) | bit): takes the n next
\* bits, or as many as are left.  [value, idx, got].
take_fold(bv, i, n) ==
    LET got == Min(n, bv.len - i)
    IN  [value |-> fold_bits(bv, i, got, 0), idx |-> i + got, got |-> got]

\* for _ in 0..n { if let Some(bit) = next() { acc = (acc << 1) | bit } }
\* with acc of width bits wide: a missing bit is skipped, a bit shifted
\* beyond the width is lost.  [value, idx, got].
for_bits(bv, i, n, width) ==
    LET t == take_fold(bv, i, n)
    IN  [value |-> t.value % (2 ^ width), idx |-> t.idx, got |-> t.got]

(***************************************************************************)
(* block_type_0 (src/src/inflate.rs): the stored block.                    *)
(***************************************************************************)
\* A length test that compares the low bytes only.
len_mismatch_low_byte(len, nlen) == (len % 256) # (Not16(nlen) % 256)

\* The test of line 104.
len_mismatch(len, nlen) == len # Not16(nlen)

\* A byte index that is left in bits.
byte_idx_in_bits(idx) == idx

\* Line 110: the byte the cursor stands in.
byte_idx(idx) == idx \div 8

\* The block decoder as a function of the DeflateData fields:
\* [status, idx, decompressed, note].  status is "ok", an error or "panic".
block_type_0(comp, decomp, bv) ==
    LET skipped == Min(bv.len, bv.idx + 5)
        l == take_fold(bv, skipped, 16)
        len == reverse_bits(l.value, 16)
        n == take_fold(bv, l.idx, 16)
        nlen == reverse_bits(n.value, 16)
        at_byte == byte_idx(n.idx)
        note == [type |-> 0, at |-> bv.idx, len_at |-> skipped, len |-> len,
                 nlen |-> nlen, data_at |-> at_byte, before |-> decomp,
                 copies |-> <<>>, eob |-> FALSE]
    IN  IF len_mismatch(len, nlen)
        THEN [status |-> "InvalidBlockError", idx |-> n.idx,
              decompressed |-> decomp, note |-> note]
        ELSE IF len + at_byte > Len(comp)
        THEN \* the slice compressed[at_byte..len + at_byte] is out of range
             [status |-> "panic", idx |-> n.idx,
              decompressed |-> decomp, note |-> note]
        ELSE [status |-> "ok", idx |-> n.idx,
              decompressed |-> decomp \o SubSeq(comp, at_byte + 1, at_byte + len),
              note |-> note]

(***************************************************************************)
(* The back-reference copy of block_type_1 and block_type_2.               *)
(***************************************************************************)
\* A copy that repeats the first byte of the range.
copy_range_first_byte(output, lo, hi) ==
    output \o [k \in 1..(hi - lo) |-> output[lo + 1]]

\* for idx in lo..hi { output.push(output[idx]) }, one byte at a time, so a
\* byte pushed by the copy can be read by it later (split in halves).
RECURSIVE copy_range(_, _, _)
copy_range(output, lo, hi) ==
    IF lo >= hi THEN output
    ELSE IF lo + 1 = hi THEN Append(output, output[lo + 1])
    ELSE LET mid == (lo + hi) \div 2
             first == copy_range(output, lo, mid)
         IN  IF Len(first) >= 0 THEN copy_range(first, mid, hi) ELSE first

\* Lines 201-206 (and 404-409): start_idx = output.len() - distance,
\* end_idx = start_idx + length, then the copy.  When distance exceeds
\* output.len() the subtraction overflows: a build with overflow checks
\* panics; a build without wraps start_idx around, and then either end_idx
\* wraps past zero too (the range is empty, nothing is copied) or the first
\* read is out of bounds (panic).  [panic, output].
copy_back(output, length, distance, checks) ==
    LET n == Len(output)
    IN  IF distance > n
        THEN IF checks THEN [panic |-> TRUE, output |-> output]
             ELSE IF n - distance + length >= 0
             THEN [panic |-> FALSE, output |-> output]
             ELSE [panic |-> TRUE, output |-> output]
        ELSE [panic |-> FALSE,
              output |-> copy_range(output, n - distance, n - distance + length)]

\* What the histories keep of a copy: the output length before it, the
\* decoded pair, and the output after it.
CopyNote(output, length, distance, after) ==
    [n |-> Len(output), length |-> length, distance |-> distance,
     after |-> after]

\* Lines 155-167: the length of a length symbol, base plus the extra bits
\* accumulated most significant bit first in a u8.  [value, idx].
decode_length(bv, i, value) ==
    LET k == TableIndex(LENGTH_CODES, value)
        x == for_bits(bv, i, LENGTH_EXTRA_BITS[k], 8)
    IN  [value |-> LENGTH_BASE[k] + x.value, idx |-> x.idx]

\* Lines 177-199: base and extra bits of a distance symbol; the extra bits
\* are accumulated in a u8, widened to u16, bit-reversed and shifted down.
\* [found, value, idx]; found = FALSE is the InvalidSymbolError.
decode_distance(bv, i, symbol) ==
    LET k == TableIndex(DISTANCE_CODES, symbol)
    IN  IF k = 0 THEN [found |-> FALSE, value |-> symbol, idx |-> i]
        ELSE LET dist_extra == DISTANCE_EXTRA_BITS[k]
                 x == for_bits(bv, i, dist_extra, 8)
             IN  [found |-> TRUE,
                  value |-> IF dist_extra > 0
                            THEN DISTANCE_BASE[k]
                                 + (reverse_bits(x.value, 16) \div (2 ^ (16 - dist_extra)))
                            ELSE DISTANCE_BASE[k],
                  idx |-> x.idx]

(***************************************************************************)
(* block_type_1 (src/src/inflate.rs): the fixed-Huffman block.             *)
(*                                                                         *)
(* The state of its loop is [idx, tree, output, status, copies]: status is *)
(* "run", "break" (symbol 256), "exhausted" (next() gave None), "panic" or *)
(* "InvalidSymbolError".                                                   *)
(***************************************************************************)
\* The body of `if let Some(value) = prefix_tree.walk(bit)`, lines 147-209.
block_type_1_symbol(bv, st, value, checks) ==
    IF value < 256
    THEN [st EXCEPT !.output = Append(@, value)]
    ELSE IF value >= 257 /\ value <= 285
    THEN LET l == decode_length(bv, st.idx, value)
             code == take_fold(bv, l.idx, 5)
             d == decode_distance(bv, code.idx, code.value)
         IN  IF ~d.found
             THEN [st EXCEPT !.idx = code.idx, !.status = "InvalidSymbolError"]
             ELSE LET c == copy_back(st.output, l.value, d.value, checks)
                  IN  [st EXCEPT !.idx = d.idx,
                                 !.output = c.output,
                                 !.status = IF c.panic THEN "panic" ELSE "run",
                                 !.copies = Append(@, CopyNote(st.output, l.value,
                                                               d.value, c.output))]
    ELSE IF value = 256
    THEN [st EXCEPT !.status = "break"]
    ELSE st

\* One round of `while let Some(bit) = self.bitstream.by_ref().next()`.
block_type_1_round(bv, st, checks) ==
    IF st.status # "run" THEN st
    ELSE IF st.idx >= bv.len THEN [st EXCEPT !.status = "exhausted"]
    ELSE LET w == walk(st.tree, BitOf(bv, st.idx))
             moved == [st EXCEPT !.idx = @ + 1, !.tree = w.tree]
         IN  IF w.symbol = NoValue THEN moved
             ELSE block_type_1_symbol(bv, moved, w.symbol, checks)

\* n rounds of the loop (split in halves); a loop that has ended stays ended.
RECURSIVE block_type_1_rounds(_, _, _, _)
block_type_1_rounds(bv, st, n, checks) ==
    IF n <= 1 THEN block_type_1_round(bv, st, checks)
    ELSE LET first == block_type_1_rounds(bv, st, n \div 2, checks)
         IN  IF first.status # "run" THEN first
             ELSE block_type_1_rounds(bv, first, n - (n \div 2), checks)

\* A conversion that keeps seven bits of every value.
as_seven_bits(output) == [k \in 1..Len(output) |-> output[k] % 128]

\* The lines 212-216: every output value as u8.
as_bytes(output) == [k \in 1..Len(output) |-> output[k] % 256]

\* The result of a Huffman block from the final state of its loop.
huffman_result(type, decomp, bv, fin) ==
    LET note == [type |-> type, at |-> bv.idx, len_at |-> 0, len |-> 0,
                 nlen |-> 0, data_at |-> 0, before |-> decomp,
                 copies |-> fin.copies, eob |-> fin.status = "break"]
    IN  IF fin.status \in {"break", "exhausted"}
        THEN [status |-> "ok", idx |-> fin.idx,
              decompressed |-> decomp \o as_bytes(fin.output), note |-> note]
        ELSE [status |-> fin.status, idx |-> fin.idx,
              decompressed |-> decomp, note |-> note]

\* Every round of the loop reads a bit, so it ends within the bits left
\* plus the round that finds none.
block_type_1(decomp, bv, checks) ==
    LET st == [idx |-> bv.idx, tree |-> FixedTree, output |-> <<>>,
               status |-> "run", copies |-> <<>>]
    IN  huffman_result(1, decomp, bv,
                       block_type_1_rounds(bv, st, bv.len - bv.idx + 1, checks))

(***************************************************************************)
(* block_type_2 (src/src/inflate.rs): the dynamic-Huffman block.           *)
(***************************************************************************)
\* The match of lines 282-303: the code-length symbol whose length is the
\* i-th one read (i from 0).
CL_ORDER == <<16, 17, 18, 0, 8, 7, 9, 6, 10, 5, 11, 4, 12, 3, 13, 2, 14, 1, 15>>

\* Lines 237-266: HLIT, HDIST and HCLEN, each folded most significant bit
\* first, bit-reversed in its type and shifted down.  [hlit, hdist, hclen, idx].
hdist_hclen(bv, hlit, b) ==
    [hlit |-> hlit,
     hdist |-> reverse_bits(b.value, 8) \div (2 ^ (8 - 5)),
     hclen |-> reverse_bits(take_fold(bv, b.idx, 4).value, 8) \div (2 ^ (8 - 4)),
     idx |-> take_fold(bv, b.idx, 4).idx]

hlit_hdist_hclen(bv, a) ==
    hdist_hclen(bv, reverse_bits(a.value, 16) \div (2 ^ (16 - 5)),
                take_fold(bv, a.idx, 5))

\* The lengths left in the order they were read.
cl_lengths_unsorted(bv, at, got) ==
    [sym \in 1..19 |->
        IF 3 * sym <= got
        THEN 4 * BitOf(bv, at + 3 * sym - 1) + 2 * BitOf(bv, at + 3 * sym - 2)
             + BitOf(bv, at + 3 * sym - 3)
        ELSE 0]

\* Lines 268-304: cl_len_vec is the next (hclen + 4) * 3 bits, or as many
\* as are left; chunks(3) folds each chunk from its last bit to its first;
\* the match puts the i-th length at the symbol CL_ORDER gives it.
cl_lengths_sorted(bv, at, got) ==
    LET cl_len_vec(k) == IF k <= got THEN BitOf(bv, at + k - 1) ELSE 0
        chunk(i) == 4 * cl_len_vec(3 * i + 3) + 2 * cl_len_vec(3 * i + 2)
                    + cl_len_vec(3 * i + 1)
    IN  [sym \in 1..19 |-> chunk(TableIndex(CL_ORDER, sym - 1) - 1)]

\* [hlit, hdist, hclen, cl_lengths_sorted, idx].
header_lengths(bv, h, got) ==
    [hlit |-> h.hlit, hdist |-> h.hdist, hclen |-> h.hclen,
     cl_lengths_sorted |-> cl_lengths_sorted(bv, h.idx, got),
     idx |-> h.idx + got]

header_with(bv, h) ==
    header_lengths(bv, h, Min((h.hclen + 4) * 3, bv.len - h.idx))

dynamic_header(bv) ==
    header_with(bv, hlit_hdist_hclen(bv, take_fold(bv, bv.idx, 5)))

\* `n` copies of the last element of a vector, pushed one at a time.
repeat_last(code_lengths, n) ==
    code_lengths \o [k \in 1..n |-> code_lengths[Len(code_lengths)]]

\* Lines 313-341: a symbol of the code-length code.  The state of the loop
\* is [idx, tree, code_lengths, status], status "run", "done", "panic"
\* (unwrap of last() on an empty vector) or "hang".
code_length_symbol(bv, st, symbol) ==
    IF symbol < 16
    THEN [st EXCEPT !.code_lengths = Append(@, symbol)]
    ELSE LET number_of_extra == IF symbol = 16 THEN 2 ELSE IF symbol = 17 THEN 3 ELSE 7
             base == IF symbol = 18 THEN 11 ELSE 3
             x == take_fold(bv, st.idx, number_of_extra)
             extra_bits == reverse_bits(x.value, 8) \div (2 ^ (8 - number_of_extra))
         IN  IF symbol = 16
             THEN IF st.code_lengths = <<>>
                  THEN [st EXCEPT !.idx = x.idx, !.status = "panic"]
                  ELSE [st EXCEPT !.idx = x.idx,
                                  !.code_lengths = repeat_last(@, base + extra_bits)]
             ELSE [st EXCEPT !.idx = x.idx,
                             !.code_lengths = @ \o [k \in 1..(base + extra_bits) |-> 0]]

\* One round of `while code_lengths.len() < total`: when no bit is left
\* the round changes nothing, so the loop never ends.
code_length_round(bv, st, total) ==
    IF st.status # "run" THEN st
    ELSE IF Len(st.code_lengths) >= total THEN [st EXCEPT !.status = "done"]
    ELSE IF st.idx >= bv.len THEN [st EXCEPT !.status = "hang"]
    ELSE LET w == walk(st.tree, BitOf(bv, st.idx))
             moved == [st EXCEPT !.idx = @ + 1, !.tree = w.tree]
         IN  IF w.symbol = NoValue THEN moved
             ELSE code_length_symbol(bv, moved, w.symbol)

RECURSIVE code_length_rounds(_, _, _, _)
code_length_rounds(bv, st, total, n) ==
    IF n <= 1 THEN code_length_round(bv, st, total)
    ELSE LET first == code_length_rounds(bv, st, total, n \div 2)
         IN  IF first.status # "run" THEN first
             ELSE code_length_rounds(bv, first, total, n - (n \div 2))

\* Lines 371-378: the loop that walks the distance tree until it yields a
\* symbol; it reads nothing and never ends once the bits are used up.
\* The state is [idx, tree, symbol, status], status "run", "found", "hang".
distance_round(bv, st) ==
    IF st.status # "run" THEN st
    ELSE IF st.idx >= bv.len THEN [st EXCEPT !.status = "hang"]
    ELSE LET w == walk(st.tree, BitOf(bv, st.idx))
         IN  [idx |-> st.idx + 1, tree |-> w.tree, symbol |-> w.symbol,
              status |-> IF w.symbol = NoValue THEN "run" ELSE "found"]

RECURSIVE distance_rounds(_, _, _)
distance_rounds(bv, st, n) ==
    IF n <= 1 THEN distance_round(bv, st)
    ELSE LET first == distance_rounds(bv, st, n \div 2)
         IN  IF first.status # "run" THEN first
             ELSE distance_rounds(bv, first, n - (n \div 2))

walk_distance(bv, i, dist_tree) ==
    distance_rounds(bv, [idx |-> i, tree |-> dist_tree, symbol |-> NoValue,
                         status |-> "run"],
                    bv.len - i + 1)

\* The body of `if let Some(sym) = ll_tree.walk(bit)`, lines 353-412.
block_type_2_symbol(bv, st, sym, dist_tree, checks) ==
    IF sym < 256
    THEN [st EXCEPT !.output = Append(@, sym)]
    ELSE IF sym >= 257 /\ sym < 285
    THEN LET l == decode_length(bv, st.idx, sym)
             code == walk_distance(bv, l.idx, dist_tree)
             d == decode_distance(bv, code.idx, code.symbol)
         IN  IF code.status = "hang"
             THEN [st EXCEPT !.idx = code.idx, !.status = "hang"]
             ELSE IF ~d.found
             THEN [st EXCEPT !.idx = code.idx, !.status = "InvalidSymbolError"]
             ELSE LET c == copy_back(st.output, l.value, d.value, checks)
                  IN  [st EXCEPT !.idx = d.idx,
                                 !.output = c.output,
                                 !.status = IF c.panic THEN "panic" ELSE "run",
                                 !.copies = Append(@, CopyNote(st.output, l.value,
                                                               d.value, c.output))]
    ELSE IF sym = 256
    THEN [st EXCEPT !.status = "break"]
    ELSE st

block_type_2_round(bv, st, dist_tree, checks) ==
    IF st.status # "run" THEN st
    ELSE IF st.idx >= bv.len THEN [st EXCEPT !.status = "exhausted"]
    ELSE LET w == walk(st.tree, BitOf(bv, st.idx))
             moved == [st EXCEPT !.idx = @ + 1, !.tree = w.tree]
         IN  IF w.symbol = NoValue THEN moved
             ELSE block_type_2_symbol(bv, moved, w.symbol, dist_tree, checks)

RECURSIVE block_type_2_rounds(_, _, _, _, _)
block_type_2_rounds(bv, st, n, dist_tree, checks) ==
    IF n <= 1 THEN block_type_2_round(bv, st, dist_tree, checks)
    ELSE LET first == block_type_2_rounds(bv, st, n \div 2, dist_tree, checks)
         IN  IF first.status # "run" THEN first
             ELSE block_type_2_rounds(bv, first, n - (n \div 2), dist_tree, checks)

\* Lines 306-346: the code lengths.  [status, idx, code_lengths, hlit, hdist].
code_lengths_result(h, fin) ==
    [status |-> fin.status, idx |-> fin.idx,
     code_lengths |-> fin.code_lengths, hlit |-> h.hlit, hdist |-> h.hdist]

code_lengths_with(bv, h) ==
    code_lengths_result(h,
        code_length_rounds(bv,
                           [idx |-> h.idx, tree |-> from_lengths(h.cl_lengths_sorted),
                            code_lengths |-> <<>>, status |-> "run"],
                           h.hlit + 257 + h.hdist + 1, bv.len - h.idx + 1))

dynamic_lengths(bv) == code_lengths_with(bv, dynamic_header(bv))

\* Both trees built from code_lengths[0..hlit + 257].
ll_tree_twice(cl, which) ==
    from_lengths(SubSeq(cl.code_lengths, 1, cl.hlit + 257))

\* Lines 343-346: ll_tree from code_lengths[0..hlit + 257], dist_tree from
\* the rest.
ll_dist_tree(cl, which) ==
    from_lengths(IF which = "ll"
                 THEN SubSeq(cl.code_lengths, 1, cl.hlit + 257)
                 ELSE SubSeq(cl.code_lengths, cl.hlit + 258, Len(cl.code_lengths)))

\* The block after its code lengths: the panic or the endless loop of the
\* code-length loop, or the trees and the loop of lines 348-414.
block_type_2_with(decomp, bv, checks, cl) ==
    huffman_result(2, decomp, bv,
        IF cl.status # "done"
        THEN [idx |-> cl.idx, output |-> <<>>, status |-> cl.status,
              copies |-> <<>>]
        ELSE block_type_2_rounds(bv,
                                 [idx |-> cl.idx, tree |-> ll_dist_tree(cl, "ll"),
                                  output |-> <<>>, status |-> "run",
                                  copies |-> <<>>],
                                 bv.len - cl.idx + 1,
                                 ll_dist_tree(cl, "dist"), checks))

block_type_2(decomp, bv, checks) ==
    block_type_2_with(decomp, bv, checks, dynamic_lengths(bv))

(***************************************************************************)
(* The inputs: payloads laid out as RFC 1951 prescribes, from a            *)
(* description of their blocks.  A block is                                *)
(*   [kind, bfinal, data, flip, lits, m, table]                            *)
(* kind "stored": LEN = Len(data), NLEN = ~LEN with the bits of flip       *)
(*   inverted (flip = 0 is a well-formed block), then data;                *)
(* kind "fixed": the literals lits, then the match m if there is one, then *)
(*   the end-of-block symbol, in the fixed code;                           *)
(* kind "dynamic": the same body in the codes of DynTables[table], after   *)
(*   the description of those codes;                                       *)
(* kind "reserved": the header with BTYPE = 3 and nothing else.            *)
(* kind "header": BTYPE = 2 and then the bits of data as they are.         *)
(* A match is <<length symbol, extra bits, distance symbol, extra bits>>.  *)
(***************************************************************************)
NoMatch == <<>>

\* The literal bytes and the matches the blocks are made of.
Lits == {65, 144}
Matches == {<<257, 0, 0, 0>>, <<261, 0, 0, 0>>, <<258, 0, 1, 0>>}
StoredBytes == {0, 65}

\* The n low bits of x, least significant first (integers) and most
\* significant first (Huffman codes).
BitsLsb(x, n) == [k \in 1..n |-> Bit(x, k - 1)]
BitsMsb(x, n) == [k \in 1..n |-> Bit(x, n - k)]

\* The fixed literal/length code of RFC 1951 section 3.2.6.
FixedCodeBits(sym) ==
    IF sym <= 143 THEN BitsMsb(48 + sym, 8)
    ELSE IF sym <= 255 THEN BitsMsb(400 + (sym - 144), 9)
    ELSE IF sym <= 279 THEN BitsMsb(sym - 256, 7)
    ELSE BitsMsb(192 + (sym - 280), 8)

RECURSIVE Concat(_)
Concat(seqs) == IF seqs = <<>> THEN <<>> ELSE Head(seqs) \o Concat(Tail(seqs))

\* The length and the distance a match stands for (RFC 1951 section 3.2.5).
MatchLength(m) == LENGTH_BASE[m[1] - 256] + m[2]
MatchDistance(m) == DISTANCE_BASE[m[3] + 1] + m[4]

FixedMatchBits(m) ==
    FixedCodeBits(m[1]) \o BitsLsb(m[2], LENGTH_EXTRA_BITS[m[1] - 256])
    \o BitsMsb(m[3], 5) \o BitsLsb(m[4], DISTANCE_EXTRA_BITS[m[3] + 1])

FixedBodyBits(b) ==
    Concat([k \in 1..Len(b.lits) |-> FixedCodeBits(b.lits[k])])
    \o (IF b.m = NoMatch THEN <<>> ELSE FixedMatchBits(b.m))
    \o FixedCodeBits(256)

\* The code tables of the dynamic blocks: HLIT, HDIST, HCLEN, the lengths
\* of the code-length code by symbol (clen[s + 1] for symbol s), and the
\* code-length symbols <<symbol, extra bits>> that spell the lengths of the
\* literal/length and distance codes.  Table 1 gives literal 65 and symbol
\* 256 two bits, literals 144 and 255 and length symbol 257 three bits,
\* length symbols 258 and 261 four bits, and distance symbols 0 and 1 one
\* bit each.  Table 2 gives literal 65 one bit and symbol 256 and length
\* symbol 285 two bits.  Table 3 gives literal 65 and symbol 256 two bits
\* and nothing else a code, which leaves half of the codes unused; table 4
\* gives the literals 65 and 144 and symbol 256 one bit each, one code too
\* many.  Tables 2 to 4 have the distance code of table 1.  Tables 5 and 6
\* have the literal/length code of table 1 and one distance code: of one
\* bit for distance symbol 0 (HDIST = 0), of two bits for distance symbol 1.
\* Table 7 has the literal/length code of table 1 and no distance code: the
\* one distance length is 0, and a match written with it has no bits for
\* its distance.
DynTables ==
    << [hlit |-> 5, hdist |-> 1, hclen |-> 14,
        clen |-> <<3, 3, 3, 2, 3, 0, 0, 0, 0, 0, 0, 0, 0, 0, 0, 0, 0, 0, 2>>,
        syms |-> << <<18, 54>>, <<2, 0>>, <<18, 67>>, <<3, 0>>, <<18, 99>>,
                    <<3, 0>>, <<2, 0>>, <<3, 0>>, <<4, 0>>, <<0, 0>>, <<0, 0>>,
                    <<4, 0>>, <<1, 0>>, <<1, 0>> >>],
       [hlit |-> 29, hdist |-> 1, hclen |-> 14,
        clen |-> <<0, 2, 2, 0, 0, 0, 0, 0, 0, 0, 0, 0, 0, 0, 0, 0, 0, 0, 1>>,
        syms |-> << <<18, 54>>, <<1, 0>>, <<18, 127>>, <<18, 41>>, <<2, 0>>,
                    <<18, 17>>, <<2, 0>>, <<1, 0>>, <<1, 0>> >>],
       [hlit |-> 0, hdist |-> 1, hclen |-> 14,
        clen |-> <<0, 2, 2, 0, 0, 0, 0, 0, 0, 0, 0, 0, 0, 0, 0, 0, 0, 0, 1>>,
        syms |-> << <<18, 54>>, <<2, 0>>, <<18, 127>>, <<18, 41>>, <<2, 0>>,
                    <<1, 0>>, <<1, 0>> >>],
       [hlit |-> 0, hdist |-> 1, hclen |-> 14,
        clen |-> <<0, 1, 0, 0, 0, 0, 0, 0, 0, 0, 0, 0, 0, 0, 0, 0, 0, 0, 1>>,
        syms |-> << <<18, 54>>, <<1, 0>>, <<18, 67>>, <<1, 0>>, <<18, 100>>,
                    <<1, 0>>, <<1, 0>>, <<1, 0>> >>],
       [hlit |-> 5, hdist |-> 0, hclen |-> 14,
        clen |-> <<3, 3, 3, 2, 3, 0, 0, 0, 0, 0, 0, 0, 0, 0, 0, 0, 0, 0, 2>>,
        syms |-> << <<18, 54>>, <<2, 0>>, <<18, 67>>, <<3, 0>>, <<18, 99>>,
                    <<3, 0>>, <<2, 0>>, <<3, 0>>, <<4, 0>>, <<0, 0>>, <<0, 0>>,
                    <<4, 0>>, <<1, 0>> >>],
       [hlit |-> 5, hdist |-> 1, hclen |-> 14,
        clen |-> <<3, 3, 3, 2, 3, 0, 0, 0, 0, 0, 0, 0, 0, 0, 0, 0, 0, 0, 2>>,
        syms |-> << <<18, 54>>, <<2, 0>>, <<18, 67>>, <<3, 0>>, <<18, 99>>,
                    <<3, 0>>, <<2, 0>>, <<3, 0>>, <<4, 0>>, <<0, 0>>, <<0, 0>>,
                    <<4, 0>>, <<0, 0>>, <<2, 0>> >>],
       [hlit |-> 5, hdist |-> 0, hclen |-> 14,
        clen |-> <<3, 3, 3, 2, 3, 0, 0, 0, 0, 0, 0, 0, 0, 0, 0, 0, 0, 0, 2>>,
        syms |-> << <<18, 54>>, <<2, 0>>, <<18, 67>>, <<3, 0>>, <<18, 99>>,
                    <<3, 0>>, <<2, 0>>, <<3, 0>>, <<4, 0>>, <<0, 0>>, <<0, 0>>,
                    <<4, 0>>, <<0, 0>> >>] >>

\* The code lengths a sequence of code-length symbols spells (RFC 1951
\* section 3.2.7): 16 repeats the previous length 3 + extra times, 17 and
\* 18 repeat zero 3 + extra and 11 + extra times.
RECURSIVE SpelledLengths(_, _, _)
SpelledLengths(syms, k, acc) ==
    IF k > Len(syms) THEN acc
    ELSE LET sym == syms[k][1]
             x == syms[k][2]
             more == CASE sym < 16 -> <<sym>>
                       [] sym = 16 -> [j \in 1..(3 + x) |->
                                          IF acc = <<>> THEN 0 ELSE acc[Len(acc)]]
                       [] sym = 17 -> [j \in 1..(3 + x) |-> 0]
                       [] OTHER -> [j \in 1..(11 + x) |-> 0]
         IN  SpelledLengths(syms, k + 1, acc \o more)

TableLengths(t) == SpelledLengths(t.syms, 1, <<>>)
LitLenLengths(t) == SubSeq(TableLengths(t), 1, t.hlit + 257)
DistLengths(t) == SubSeq(TableLengths(t), t.hlit + 258, Len(TableLengths(t)))

\* The canonical code of symbol sym under the code lengths L (RFC 1951
\* section 3.2.2), in closed form: the codes of a length follow those of
\* the shorter lengths, in symbol order.
RECURSIVE ShorterCodes(_, _, _)
ShorterCodes(L, len, l) ==
    IF l >= len THEN 0
    ELSE Cardinality({j \in 1..Len(L) : L[j] = l}) * (2 ^ (len - l))
         + ShorterCodes(L, len, l + 1)

CanonCodeBits(L, sym) ==
    LET len == L[sym + 1]
    IN  BitsMsb(ShorterCodes(L, len, 1)
                + Cardinality({j \in 1..sym : L[j] = len}), len)

ExtraBitsOf(sym) ==
    CASE sym = 16 -> 2 [] sym = 17 -> 3 [] sym = 18 -> 7 [] OTHER -> 0

DynamicTableBits(t) ==
    BitsLsb(t.hlit, 5) \o BitsLsb(t.hdist, 5) \o BitsLsb(t.hclen, 4)
    \o Concat([i \in 1..(t.hclen + 4) |-> BitsLsb(t.clen[CL_ORDER[i] + 1], 3)])
    \o Concat([k \in 1..Len(t.syms) |->
                  CanonCodeBits(t.clen, t.syms[k][1])
                  \o BitsLsb(t.syms[k][2], ExtraBitsOf(t.syms[k][1]))])

DynamicMatchBits(t, m) ==
    CanonCodeBits(LitLenLengths(t), m[1])
    \o BitsLsb(m[2], LENGTH_EXTRA_BITS[m[1] - 256])
    \o CanonCodeBits(DistLengths(t), m[3])
    \o BitsLsb(m[4], DISTANCE_EXTRA_BITS[m[3] + 1])

DynamicBodyBits(b) ==
    LET t == DynTables[b.table]
        L == LitLenLengths(t)
    IN  DynamicTableBits(t)
        \o Concat([k \in 1..Len(b.lits) |-> CanonCodeBits(L, b.lits[k])])
        \o (IF b.m = NoMatch THEN <<>> ELSE DynamicMatchBits(t, b.m))
        \o CanonCodeBits(L, 256)

StoredBodyBits(b, at) ==
    LET pad == (8 - ((at + 3) % 8)) % 8
        len == Len(b.data)
        nlen == IF b.flip = 0 THEN Not16(len)
                ELSE IF Bit(Not16(len), b.flip - 1) = 1
                     THEN Not16(len) - 2 ^ (b.flip - 1)
                     ELSE Not16(len) + 2 ^ (b.flip - 1)
    IN  [k \in 1..pad |-> 0] \o BitsLsb(len, 16) \o BitsLsb(nlen, 16)
        \o Concat([k \in 1..len |-> BitsLsb(b.data[k], 8)])

BlockType(b) ==
    CASE b.kind = "stored" -> 0
      [] b.kind = "fixed" -> 1
      [] b.kind \in {"dynamic", "header"} -> 2
      [] OTHER -> 3

\* The bits of block b when its header starts at bit offset at.
BlockBits(b, at) ==
    <<b.bfinal, BlockType(b) % 2, BlockType(b) \div 2>>
    \o CASE b.kind = "stored" -> StoredBodyBits(b, at)
         [] b.kind = "fixed" -> FixedBodyBits(b)
         [] b.kind = "dynamic" -> DynamicBodyBits(b)
         [] b.kind = "header" -> b.data
         [] OTHER -> <<>>

\* The bits of the first n blocks, one after the other.
RECURSIVE PayloadBits(_, _)
PayloadBits(bs, n) ==
    IF n = 0 THEN <<>>
    ELSE LET before == PayloadBits(bs, n - 1)
         IN  before \o BlockBits(bs[n], Len(before))

\* The bit offset of the header of block k; for k = Len(bs) + 1, the offset
\* of the first bit after the last block.
HeaderAt(bs, k) == Len(PayloadBits(bs, k - 1))

\* The bytes of a bit string, first bit in the least significant place of
\* the first byte, the last byte filled up with zeros.
PackBytes(bits) ==
    [j \in 1..((Len(bits) + 7) \div 8) |->
        LET bit(k) == IF 8 * (j - 1) + k + 1 <= Len(bits)
                      THEN bits[8 * (j - 1) + k + 1] ELSE 0
        IN  bit(0) + 2 * bit(1) + 4 * bit(2) + 8 * bit(3) + 16 * bit(4)
            + 32 * bit(5) + 64 * bit(6) + 128 * bit(7)]

Payload(bs) == PackBytes(PayloadBits(bs, Len(bs)))

(***************************************************************************)
(* The explored inputs: every payload of one block, and the payloads of    *)
(* two short blocks whose first is one of a few.                           *)
(***************************************************************************)
SeqsUpTo(S, n) == UNION {[1..k -> S] : k \in 0..n}

StoredBlocks ==
    {[kind |-> "stored", bfinal |-> f, data |-> d, flip |-> x,
      lits |-> <<>>, m |-> NoMatch, table |-> 0] :
        f \in {0, 1}, d \in SeqsUpTo(StoredBytes, MaxStored), x \in {0, 1, 9}}

HuffmanBlocks(kind, table) ==
    {[kind |-> kind, bfinal |-> f, data |-> <<>>, flip |-> 0,
      lits |-> l, m |-> m, table |-> table] :
        f \in {0, 1}, l \in SeqsUpTo(Lits, MaxLits), m \in Matches \cup {NoMatch}}

ReservedBlocks ==
    {[kind |-> "reserved", bfinal |-> f, data |-> <<>>, flip |-> 0,
      lits |-> <<>>, m |-> NoMatch, table |-> 0] : f \in {0, 1}}

AllBlocks ==
    StoredBlocks \cup HuffmanBlocks("fixed", 0) \cup HuffmanBlocks("dynamic", 1)
    \cup ReservedBlocks

\* The blocks of the payloads of two blocks.
ShortBlocks ==
    {b \in AllBlocks : Len(b.data) <= 1 /\ Len(b.lits) <= 1}

FirstBlocks ==
    {b \in ShortBlocks :
        /\ b.kind # "reserved"
        /\ b.flip = 0
        /\ b.lits \in {<<>>, <<65>>}
        /\ b.data \in {<<>>, <<65>>}
        /\ b.m \in {NoMatch, <<257, 0, 0, 0>>}
        /\ b.bfinal = 1 => (b.kind = "fixed" /\ b.lits = <<65>> /\ b.m = NoMatch)}

\* The values of k extra bits that are tried: none set, the first read
\* alone, the last read alone, all set.
ExtraValues(k) == {0, 2 ^ k - 1} \cup (IF k = 0 THEN {} ELSE {1, 2 ^ (k - 1)})

\* A final fixed block with the literal 65 and the match m.
ProbeBlock(m) ==
    [kind |-> "fixed", bfinal |-> 1, data |-> <<>>, flip |-> 0,
     lits |-> <<65>>, m |-> m, table |-> 0]

\* A block for every distance symbol and some values of its extra bits.
DistanceProbes ==
    UNION {{ProbeBlock(<<257, 0, d, x>>) :
               x \in ExtraValues(DISTANCE_EXTRA_BITS[d + 1])} : d \in 0..29}

\* A block for every length symbol and some values of its extra bits.
LengthProbes ==
    UNION {{ProbeBlock(<<l, x, 0, 0>>) :
               x \in ExtraValues(LENGTH_EXTRA_BITS[l - 256])} : l \in 257..285}

\* Final dynamic blocks with the tables 2 to 4: with and without the
\* literal 65, and with the match of length symbol 285 where the table has it.
TableProbe(l, m, t) ==
    [kind |-> "dynamic", bfinal |-> 1, data |-> <<>>, flip |-> 0,
     lits |-> l, m |-> m, table |-> t]

TableProbes ==
    {TableProbe(l, NoMatch, t) : l \in {<<>>, <<65>>}, t \in {2, 3, 4}}
    \cup {TableProbe(l, <<285, 0, 0, 0>>, 2) : l \in {<<>>, <<65>>}}
    \cup {TableProbe(<<65>>, <<257, 0, 0, 0>>, 5),
          TableProbe(<<65, 144>>, <<257, 0, 1, 0>>, 6),
          TableProbe(<<65>>, NoMatch, 7),
          TableProbe(<<65>>, <<257, 0, 0, 0>>, 7)}

\* Final fixed blocks with one of the literal/length symbols 286 and 287,
\* which the fixed code has codes for and no data may use, before the
\* end-of-block code.
BadSymbolProbes ==
    {[kind |-> "fixed", bfinal |-> 1, data |-> <<>>, flip |-> 0,
      lits |-> l, m |-> NoMatch, table |-> 0] :
        l \in {<<286>>, <<287>>, <<65, 286>>, <<287, 65>>}}

\* A final block of type 2 given by the bits after its block type.
HeaderProbe(bits) ==
    [kind |-> "header", bfinal |-> 1, data |-> bits, flip |-> 0,
     lits |-> <<>>, m |-> NoMatch, table |-> 0]

\* HLIT = 0, HDIST = 0, HCLEN = h and h + 4 code lengths, the i-th (from 0)
\* being (i + c) % 8, with nothing after them.
LengthsHeader(h, c) ==
    BitsLsb(0, 5) \o BitsLsb(0, 5) \o BitsLsb(h, 4)
    \o Concat([i \in 1..(h + 4) |-> BitsLsb((i - 1 + c) % 8, 3)])

\* Every HCLEN with two runs of code lengths.
HeaderProbes == {HeaderProbe(LengthsHeader(h, c)) : h \in 0..15, c \in {1, 6}}

\* HLIT = 0, HDIST = 0, HCLEN = 0 and the four code lengths a, b, c, d of
\* the code-length symbols 16, 17, 18 and 0.
ShortHeader(a, b, c, d) ==
    BitsLsb(0, 5) \o BitsLsb(0, 5) \o BitsLsb(0, 4)
    \o BitsLsb(a, 3) \o BitsLsb(b, 3) \o BitsLsb(c, 3) \o BitsLsb(d, 3)

\* Blocks whose first code-length symbol is 16: the codes are 0 for symbol
\* 0 and 1 for symbol 16, and the first code is that of 16 with the extra
\* bits x.
RepeatFirstProbes ==
    {HeaderProbe(ShortHeader(1, 0, 0, 1) \o <<1>> \o BitsLsb(x, 2) \o rest) :
        x \in {0, 3}, rest \in {<<>>, <<0, 0, 0, 0, 0, 0, 0, 0>>}}

\* Blocks whose code lengths are two runs of zeros, 11 + x and 11 + y long,
\* with codes 0 for symbol 0 and 1 for symbol 18; 258 lengths are asked for.
ZeroRunProbes ==
    {HeaderProbe(ShortHeader(0, 0, 1, 1) \o <<1>> \o BitsLsb(x, 7)
                 \o <<1>> \o BitsLsb(y, 7)) :
        x \in {127}, y \in {109, 110, 127}}

ProbeBlocks ==
    DistanceProbes \cup LengthProbes \cup TableProbes \cup BadSymbolProbes
    \cup HeaderProbes \cup RepeatFirstProbes \cup ZeroRunProbes

Inputs == {<<b>> : b \in AllBlocks \cup ProbeBlocks}
          \cup {<<a, b>> : a \in FirstBlocks, b \in ShortBlocks}

(***************************************************************************)
(* DeflateData::build and decompress (src/src/inflate.rs).                 *)
(***************************************************************************)
\* A test of the second header bit.
is_final_second_bit(header) == header[2] = 1

\* Line 66: self.finished = matches!(header[0], 1).
is_final(header) == header[1] = 1

\* A match that sends the header bits (1, 1) to the dynamic block.
dispatch_without_error(header) ==
    CASE header[2] = 0 /\ header[3] = 0 -> "block_type_0"
      [] header[2] = 1 /\ header[3] = 0 -> "block_type_1"
      [] OTHER -> "block_type_2"

\* The match of lines 69-83 on (header[1], header[2]).
dispatch(header) ==
    CASE header[2] = 0 /\ header[3] = 0 -> "block_type_0"
      [] header[2] = 1 /\ header[3] = 0 -> "block_type_1"
      [] header[2] = 0 /\ header[3] = 1 -> "block_type_2"
      [] OTHER -> "InvalidBlockError"

\* The payload without its last c bytes.
DropLast(bytes, c) == SubSeq(bytes, 1, IF Len(bytes) > c THEN Len(bytes) - c ELSE 0)

\* The number of bytes a payload of one Huffman block may have lost at its
\* end; every other payload is whole.
Cuts(bs) ==
    IF Len(bs) = 1 /\ bs[1].kind \in {"fixed", "dynamic"} THEN 0..MaxCut ELSE {0}

\* DeflateData::build on the payload of some input, whole or cut short, in
\* some build.
Init ==
    /\ input \in Inputs
    /\ overflow_checks \in BOOLEAN
    /\ \E c \in Cuts(input) : compressed = DropLast(Payload(input), c)
    /\ decompressed = <<>>
    /\ bitstream = from_be_bytes(compressed)
    /\ finished = FALSE
    /\ pc = "idle"
    /\ result = "none"
    /\ returned = <<>>
    /\ calls = 0
    /\ headers = <<>>
    /\ blocks = <<>>
    /\ outcomes = <<>>
    /\ NoGzip
    /\ NoPrefixTree
    /\ NoBitVector
    /\ NoBitStream

\* A call of decompress on the value.
Decompress ==
    /\ pc = "idle"
    /\ calls < MaxCalls
    /\ pc' = "loop"
    /\ calls' = calls + 1
    /\ result' = "none"
    /\ returned' = <<>>
    /\ UNCHANGED <<compressed, decompressed, bitstream, finished,
                   overflow_checks, input, headers, blocks, outcomes>>
    /\ UNCHANGED <<gzip_vars, prefix_vars, bitvec_vars, stream_vars>>

\* Lines 50-83: the while test has found finished false; the three header
\* bits are read and the block is dispatched on.
ReadHeader ==
    /\ pc = "loop"
    /\ ~finished
    /\ IF bitstream.len - bitstream.idx < 3
       THEN /\ bitstream' = [bitstream EXCEPT !.idx = bitstream.len]
            /\ result' = "InvalidBlockError"
            /\ pc' = "idle"
            /\ outcomes' = Append(outcomes, "InvalidBlockError")
            /\ UNCHANGED <<finished, headers>>
       ELSE LET header == [k \in 1..3 |-> BitOf(bitstream, bitstream.idx + k - 1)]
                target == dispatch(header)
            IN  /\ bitstream' = [bitstream EXCEPT !.idx = @ + 3]
                /\ finished' = is_final(header)
                /\ headers' = Append(headers,
                                     [at |-> bitstream.idx, bfinal |-> header[1],
                                      btype |-> header[2] + 2 * header[3]])
                /\ IF target = "InvalidBlockError"
                   THEN /\ result' = "InvalidBlockError"
                        /\ pc' = "idle"
                        /\ outcomes' = Append(outcomes, "InvalidBlockError")
                   ELSE /\ result' = result
                        /\ pc' = target
                        /\ outcomes' = outcomes
    /\ UNCHANGED <<compressed, decompressed, overflow_checks, returned, calls,
                   input, blocks>>
    /\ UNCHANGED <<gzip_vars, prefix_vars, bitvec_vars, stream_vars>>

\* Line 85: the while test has found finished true.
ReturnOk ==
    /\ pc = "loop"
    /\ finished
    /\ result' = "Ok"
    /\ returned' = decompressed
    /\ pc' = "idle"
    /\ outcomes' = Append(outcomes, "Ok")
    /\ UNCHANGED <<compressed, decompressed, bitstream, finished,
                   overflow_checks, calls, input, headers, blocks>>
    /\ UNCHANGED <<gzip_vars, prefix_vars, bitvec_vars, stream_vars>>

\* What a block decoder leaves behind: Ok(()) goes back to the while test,
\* an Err is passed on by the ? operator, a panic ends the thread.
AfterBlock(r) ==
    /\ bitstream' = [bitstream EXCEPT !.idx = r.idx]
    /\ decompressed' = r.decompressed
    /\ blocks' = Append(blocks, [note |-> r.note, status |-> r.status,
                                 idx_after |-> r.idx, after |-> r.decompressed])
    /\ pc' = CASE r.status = "ok" -> "loop"
               [] r.status = "panic" -> "dead"
               [] r.status = "hang" -> "spin"
               [] OTHER -> "idle"
    /\ result' = CASE r.status \in {"ok", "hang"} -> result
                   [] r.status = "panic" -> "Panic"
                   [] OTHER -> r.status
    /\ outcomes' = IF r.status \in {"ok", "hang", "panic"} THEN outcomes
                   ELSE Append(outcomes, r.status)
    /\ UNCHANGED <<compressed, finished, overflow_checks, returned, calls,
                   input, headers>>
    /\ UNCHANGED <<gzip_vars, prefix_vars, bitvec_vars, stream_vars>>

BlockType0 ==
    /\ pc = "block_type_0"
    /\ AfterBlock(block_type_0(compressed, decompressed, bitstream))

BlockType1 ==
    /\ pc = "block_type_1"
    /\ AfterBlock(block_type_1(decompressed, bitstream, overflow_checks))

BlockType2 ==
    /\ pc = "block_type_2"
    /\ AfterBlock(block_type_2(decompressed, bitstream, overflow_checks))

Next ==
    \/ Decompress
    \/ ReadHeader
    \/ ReturnOk
    \/ BlockType0
    \/ BlockType1
    \/ BlockType2

Spec == Init /\ [][Next]_vars

(***************************************************************************)
(* What RFC 1951 says the blocks of an input stand for.                    *)
(***************************************************************************)
\* out, then length bytes, each the byte distance places before it.
RefCopy(out, length, distance) ==
    out \o [i \in 1..length |-> out[Len(out) - distance + 1 + ((i - 1) % distance)]]

RefWithLits(out, b) ==
    IF b.m = NoMatch THEN out
    ELSE RefCopy(out, MatchLength(b.m), MatchDistance(b.m))

RefBlock(out, b) ==
    IF b.kind = "stored" THEN out \o b.data ELSE RefWithLits(out \o b.lits, b)

RECURSIVE RefOutput(_, _)
RefOutput(bs, n) == IF n = 0 THEN <<>> ELSE RefBlock(RefOutput(bs, n - 1), bs[n])

\* The greatest code length of L.
LongestCode(L) == CHOOSE l \in 0..15 : (\E j \in DOMAIN L : L[j] = l)
                                      /\ (\A j \in DOMAIN L : L[j] <= l)

\* The sum, over the symbols with a code, of 2 ^ (maxlen - L[s]).
RECURSIVE KraftSum(_, _, _)
KraftSum(L, maxlen, l) ==
    IF l > maxlen THEN 0
    ELSE Cardinality({j \in DOMAIN L : L[j] = l}) * (2 ^ (maxlen - l))
         + KraftSum(L, maxlen, l + 1)

\* The code lengths L use every code: the code is complete.
Complete(L) == KraftSum(L, LongestCode(L), 1) = 2 ^ LongestCode(L)

\* Block n of bs is a block RFC 1951 allows after the blocks before it.
WellFormed(bs, n) ==
    /\ bs[n].kind \notin {"reserved", "header"}
    /\ bs[n].flip = 0
    /\ bs[n].kind = "dynamic" => Complete(LitLenLengths(DynTables[bs[n].table]))
    /\ \A k \in DOMAIN bs[n].lits : bs[n].lits[k] < 256
    /\ bs[n].m # NoMatch =>
           MatchDistance(bs[n].m) <= Len(RefOutput(bs, n - 1)) + Len(bs[n].lits)
    /\ (bs[n].kind = "dynamic" /\ bs[n].m # NoMatch) =>
           DistLengths(DynTables[bs[n].table])[bs[n].m[3] + 1] > 0

\* A call of decompress has ended: with a value, a panic or a loop that
\* never ends.
Ended == calls >= 1 /\ pc \in {"idle", "dead", "spin"}

\* The payload holds every byte of its blocks.
Whole == Len(compressed) = (HeaderAt(input, Len(input) + 1) + 7) \div 8

OneFinalBlock(kind) ==
    Len(input) = 1 /\ input[1].kind = kind /\ input[1].bfinal = 1 /\ Whole

\* C1: a single final fixed-Huffman block of literals and the end-of-block
\* code makes decompress return Ok with exactly those literals.
FixedLiteralsRoundTrip ==
    (OneFinalBlock("fixed") /\ input[1].m = NoMatch /\ WellFormed(input, 1)
     /\ Ended)
        => (result = "Ok" /\ returned = input[1].lits)

FixedLiteralsReturned ==
    /\ OneFinalBlock("fixed")
    /\ result = "Ok"
    /\ returned = <<65, 144>>

\* C2: a single final stored block at the start of the payload, with NLEN
\* the complement of LEN, makes decompress return Ok with exactly the LEN
\* bytes that follow NLEN, LEN = 0 included.
StoredRoundTrip ==
    (OneFinalBlock("stored") /\ input[1].flip = 0 /\ Ended)
        => (result = "Ok" /\ returned = input[1].data)

StoredBytesReturned ==
    /\ OneFinalBlock("stored")
    /\ result = "Ok"
    /\ returned = <<65, 0>>

\* C3: a back-reference (L, D) decoded when its block has produced n >= D
\* bytes appends exactly L bytes, the i-th the byte at position n - D + i of
\* the output as it then stands, so a copy with D < L reads what it wrote;
\* a block whose back-reference stays inside it decodes to what RFC 1951
\* says, and literal A, length 7, distance 1 gives eight A.
BackReferenceCopies ==
    /\ \A k \in DOMAIN blocks : \A j \in DOMAIN blocks[k].note.copies :
           LET c == blocks[k].note.copies[j]
           IN  c.distance <= c.n =>
                   /\ Len(c.after) = c.n + c.length
                   /\ \A i \in 0..(c.length - 1) :
                          c.after[c.n + i + 1] = c.after[c.n - c.distance + i + 1]
    /\ (/\ Len(input) = 1
        /\ input[1].kind \in {"fixed", "dynamic"}
        /\ input[1].bfinal = 1
        /\ input[1].m \in Matches
        /\ WellFormed(input, 1)
        /\ Whole
        /\ Ended)
           => (result = "Ok" /\ returned = RefOutput(input, 1))
    /\ (/\ Len(input) = 1
        /\ input[1].kind \in {"fixed", "dynamic"}
        /\ input[1].bfinal = 1
        /\ input[1].lits = <<65>>
        /\ input[1].m = <<261, 0, 0, 0>>
        /\ Whole
        /\ Ended)
           => returned = <<65, 65, 65, 65, 65, 65, 65, 65>>

OverlappingCopyMade ==
    /\ Len(blocks) = 1
    /\ blocks[1].note.type = 2
    /\ Len(blocks[1].note.copies) = 1
    /\ blocks[1].note.copies[1].n = 2
    /\ blocks[1].note.copies[1].distance = 2
    /\ blocks[1].note.copies[1].length = 4
    /\ result = "Ok"
    /\ returned = <<65, 144, 65, 144, 65, 144>>

\* C4: a back-reference in a block that is not the first, whose distance is
\* greater than what its block has produced so far but not greater than the
\* whole output so far, copies from the output of the earlier blocks, and
\* decompress returns Ok with the output RFC 1951 gives.
ReachesEarlierBlocks ==
    (/\ Len(input) = 2
     /\ input[1].kind \in {"fixed", "dynamic"}
     /\ input[1].bfinal = 0
     /\ WellFormed(input, 1)
     /\ input[2].kind \in {"fixed", "dynamic"}
     /\ input[2].bfinal = 1
     /\ input[2].m # NoMatch
     /\ MatchDistance(input[2].m) > Len(input[2].lits)
     /\ WellFormed(input, 2)
     /\ Ended)
        => (result = "Ok" /\ returned = RefOutput(input, 2))

\* C5: after a block with BFINAL = 0 has been decoded, the bit cursor is at
\* the first bit of the header of the next block; after a stored block it
\* is past all the LEN raw bytes.
CursorAtNextHeader ==
    (/\ calls = 1
     /\ pc = "loop"
     /\ Len(blocks) = 1
     /\ blocks[1].status = "ok"
     /\ input[1].bfinal = 0
     /\ WellFormed(input, 1))
        => bitstream.idx = HeaderAt(input, 2)

\* C6: on entering a stored block the decoder discards the bits left in the
\* current byte after the three header bits, none to seven of them, and
\* reads LEN at the next byte boundary, whatever the bit offset of the
\* header.
StoredBlockAligns ==
    \A k \in DOMAIN blocks :
        blocks[k].note.type = 0 =>
            \* note.at is the cursor after the three header bits
            blocks[k].note.len_at = 8 * ((blocks[k].note.at + 7) \div 8)

\* The last block header that was read.
last_header == headers[Len(headers)]

\* C7: decompress reads a block header after every block whose BFINAL bit
\* was 0 and none after a block whose BFINAL bit was 1, returns Ok only if
\* a header with BFINAL = 1 has been read, and returns InvalidBlockError
\* when the bits run out in the header of a further block.
BlockSequencing ==
    /\ [](result = "Ok" => \E k \in DOMAIN headers : headers[k].bfinal = 1)
    /\ [](\A k \in DOMAIN headers : k < Len(headers) => headers[k].bfinal = 0)
    /\ [](finished <=> (headers # <<>> /\ last_header.bfinal = 1))
    /\ [][(pc = "loop" /\ ~finished) =>
              IF bitstream.len - bitstream.idx < 3
              THEN result' = "InvalidBlockError" /\ pc' = "idle"
                   /\ headers' = headers
              ELSE /\ Len(headers') = Len(headers) + 1
                   /\ headers'[Len(headers')].at = bitstream.idx]_vars
    /\ [][(pc = "loop" /\ finished) =>
              (result' = "Ok" /\ pc' = "idle" /\ headers' = headers)]_vars
    /\ [][(Len(blocks') = Len(blocks) + 1
           /\ blocks'[Len(blocks')].status = "ok") => pc' = "loop"]_vars

HeaderRanOut ==
    /\ result = "InvalidBlockError"
    /\ pc = "idle"
    /\ Len(blocks) >= 1
    /\ Len(headers) = Len(blocks)
    /\ blocks[Len(blocks)].status = "ok"
    /\ last_header.bfinal = 0
    /\ bitstream.idx = bitstream.len

\* C8: on every block header with both BTYPE bits 1, whatever its BFINAL
\* bit and whatever came before, decompress returns InvalidBlockError and
\* no byte is added to the output.
ReservedTypeRejected ==
    [][(Len(headers') = Len(headers) + 1
        /\ headers'[Len(headers')].btype = 3)
           => (/\ result' = "InvalidBlockError"
               /\ pc' = "idle"
               /\ decompressed' = decompressed
               /\ blocks' = blocks)]_vars

ReservedAfterABlock ==
    /\ Len(headers) = 2
    /\ last_header.btype = 3
    /\ last_header.bfinal = 0
    /\ decompressed # <<>>
    /\ result = "InvalidBlockError"

\* The 16 bits at cursor at as a number, the first bit the least significant.
RECURSIVE LittleEndian(_, _)
LittleEndian(at, n) ==
    IF n = 0 THEN 0 ELSE BitOf(bitstream, at) + 2 * LittleEndian(at + 1, n - 1)

\* C9: in a stored block whose NLEN is not the complement of its LEN, both
\* 16 bits read least significant bit first, decompress returns an error
\* and the output is what it was before the block.
StoredLengthCheck ==
    \A k \in DOMAIN blocks :
        LET b == blocks[k]
        IN  (/\ b.note.type = 0
             /\ b.note.len_at + 32 <= bitstream.len
             /\ LittleEndian(b.note.len_at + 16, 16)
                    # 65535 - LittleEndian(b.note.len_at, 16))
                => /\ b.status = "InvalidBlockError"
                   /\ b.after = b.note.before
                   /\ (k = Len(blocks) /\ calls = 1 /\ pc = "idle")
                          => (result = "InvalidBlockError"
                              /\ decompressed = b.note.before)

CorruptLengthRejected ==
    /\ Len(input) = 2
    /\ input[2].kind = "stored"
    /\ input[2].flip = 9
    /\ Len(blocks) = 2
    /\ blocks[2].note.type = 0
    /\ blocks[2].note.before # <<>>
    /\ blocks[2].status = "InvalidBlockError"
    /\ decompressed = blocks[2].note.before
    /\ result = "InvalidBlockError"

\* C10: a back-reference whose distance is greater than the number of
\* output bytes produced so far makes decompress return an error; it does
\* not panic, wrap around or read out of bounds.
ReferenceBeforeStartRejected ==
    \A k \in DOMAIN blocks : \A j \in DOMAIN blocks[k].note.copies :
        LET c == blocks[k].note.copies[j]
        IN  c.distance > Len(blocks[k].note.before) + c.n =>
                blocks[k].status \in {"InvalidBlockError", "InvalidSymbolError"}

\* The values of Err that decompress returns.
Errors == {"InvalidBlockError", "InvalidSymbolError"}

\* C11: when the bits run out inside a fixed or dynamic Huffman block
\* before its end-of-block code has been read, decompress returns an error,
\* never Ok, whatever the block's BFINAL bit.
TruncatedBlockRejected ==
    (/\ Len(input) = 1
     /\ input[1].kind \in {"fixed", "dynamic"}
     /\ WellFormed(input, 1)
     /\ 8 * Len(compressed) < HeaderAt(input, 2)
     /\ Len(headers) >= 1
     /\ calls = 1
     /\ Ended)
        => result \in Errors

\* C12: once a call of decompress on a value has returned Err, every later
\* call on the same value returns Err as well, never Ok with the output so
\* far, also when the header of the failing block had BFINAL = 1.
FailureIsFatal ==
    \A i \in DOMAIN outcomes : \A j \in DOMAIN outcomes :
        (i < j /\ outcomes[i] \in Errors) => outcomes[j] \in Errors

(***************************************************************************)
(* GzipHeader::build (src/src/gzip.rs).                                    *)
(***************************************************************************)
\* What build gives when an index or a slice is out of range.
Panicked == [status |-> "Panic"]

\* Option::None, which no string of bytes equals.
None == <<0 - 1>>

\* String::from_utf8(bytes).is_ok(), from byte i on.
RECURSIVE valid_utf8_from(_, _)
valid_utf8_from(bytes, i) ==
    LET b == bytes[i]
        cont(k) == i + k <= Len(bytes) /\ bytes[i + k] \in 128..191
        second(lo, hi) == i + 1 <= Len(bytes) /\ bytes[i + 1] \in lo..hi
    IN  IF i > Len(bytes) THEN TRUE
        ELSE IF b < 128 THEN valid_utf8_from(bytes, i + 1)
        ELSE IF b \in 194..223 THEN cont(1) /\ valid_utf8_from(bytes, i + 2)
        ELSE IF b \in 224..239
             THEN /\ second(IF b = 224 THEN 160 ELSE 128, IF b = 237 THEN 159 ELSE 191)
                  /\ cont(2)
                  /\ valid_utf8_from(bytes, i + 3)
        ELSE IF b \in 240..244
             THEN /\ second(IF b = 240 THEN 144 ELSE 128, IF b = 244 THEN 143 ELSE 191)
                  /\ cont(2)
                  /\ cont(3)
                  /\ valid_utf8_from(bytes, i + 4)
        ELSE FALSE

\* Lines 129-133: flags[x] is bit x of FLG.
flags_of(flg) == [x \in 0..4 |-> Bit(flg, x) = 1]

\* bytes[idx..].iter().cloned().take_while(|byte| byte != &0u8): the bytes
\* from the zero-based index idx up to a zero byte or the end.
take_while_nonzero(bytes, idx) ==
    LET n == CHOOSE k \in 0..(Len(bytes) - idx) :
                 /\ (idx + k = Len(bytes) \/ bytes[idx + k + 1] = 0)
                 /\ \A j \in 0..(k - 1) : bytes[idx + j + 1] # 0
    IN  SubSeq(bytes, idx + 1, idx + n)

\* Lines 183-200: the CRC16, if its flag is set, and the value returned.
build_crc(bytes, flags, st) ==
    IF ~flags[1] THEN [st EXCEPT !.status = "Ok"]
    ELSE IF st.end_idx + 1 >= Len(bytes) THEN Panicked
    ELSE [st EXCEPT !.status = "Ok",
                    !.crc = 256 * bytes[st.end_idx + 1] + bytes[st.end_idx + 2],
                    !.end_idx = @ + 2]

\* Lines 163-178 with after_header taken: the comment.
build_comment_with(bytes, flags, st, after_header) ==
    IF ~valid_utf8_from(after_header, 1) THEN [status |-> "InvalidHeader"]
    ELSE build_crc(bytes, flags,
                   [st EXCEPT !.fcomment = after_header,
                              !.end_idx = @ + Len(after_header) + 1])

build_comment(bytes, flags, st) ==
    IF ~flags[4] THEN build_crc(bytes, flags, st)
    ELSE IF st.end_idx > Len(bytes) THEN Panicked
    ELSE build_comment_with(bytes, flags, st, take_while_nonzero(bytes, st.end_idx))

\* Lines 146-161 with after_header taken: the file name.
build_name_with(bytes, flags, st, after_header) ==
    IF ~valid_utf8_from(after_header, 1) THEN [status |-> "InvalidHeader"]
    ELSE build_comment(bytes, flags,
                       [st EXCEPT !.fname = after_header,
                                  !.end_idx = @ + Len(after_header) + 1])

build_name(bytes, flags, st) ==
    IF ~flags[3] THEN build_comment(bytes, flags, st)
    ELSE IF st.end_idx > Len(bytes) THEN Panicked
    ELSE build_name_with(bytes, flags, st, take_while_nonzero(bytes, st.end_idx))

\* Lines 140-144 with xlen read: bytes[12..xlen as usize], then _idx.
build_extra_with(bytes, flags, st, xlen) ==
    IF 12 > xlen \/ xlen > Len(bytes) THEN Panicked
    ELSE build_name(bytes, flags,
                    [st EXCEPT !.fextra = SubSeq(bytes, 13, xlen),
                               !.end_idx = @ + xlen + 2])

build_extra(bytes, flags, st) ==
    IF ~flags[2] THEN build_name(bytes, flags, st)
    ELSE IF Len(bytes) < 12 THEN Panicked
    ELSE build_extra_with(bytes, flags, st, bytes[11] + 256 * bytes[12])

\* GzipHeader::build(bytes).
build(bytes) ==
    IF Len(bytes) < 10 THEN Panicked
    ELSE IF <<bytes[1], bytes[2]>> # <<31, 139>> THEN [status |-> "NotGzipFile"]
    ELSE build_extra(bytes, flags_of(bytes[4]),
                     [status |-> "run", cm |-> bytes[3], flg |-> flags_of(bytes[4]),
                      mtime |-> bytes[5] + 256 * bytes[6] + 65536 * bytes[7]
                                + 16777216 * bytes[8],
                      xfl |-> bytes[9], os |-> bytes[10], crc |-> None, fextra |-> None, fname |-> None,
                      fcomment |-> None, end_idx |-> 10])

(***************************************************************************)
(* The explored gzip files: a header with or without each optional part,   *)
(* then an empty DEFLATE block and the trailer.                            *)
(***************************************************************************)
\* The magic bytes and two pairs that are not.
Magics == {<<31, 139>>, <<31, 138>>, <<80, 75>>}

\* The values of XLEN.
ExtraLengths == {0, 4, 12, 13}

\* An extra field of n bytes: one subfield, or nothing.
ExtraField(n) ==
    IF n = 0 THEN <<>> ELSE <<65, 66, n - 4, 0>> \o [i \in 1..(n - 4) |-> 7]

\* File names and comments, in ISO 8859-1 as RFC 1952 has them: none, "a",
\* "e" with an acute accent.
Names == {<<>>, <<97>>, <<233>>}
Comments == {<<>>, <<98>>}

GzipParts ==
    [id : Magics,
     extra : {None} \cup {ExtraField(n) : n \in ExtraLengths},
     name : {None} \cup Names,
     comment : {None} \cup Comments,
     hcrc : BOOLEAN]

\* The FLG byte of the parts.
FlgOf(d) ==
    (IF d.hcrc THEN 2 ELSE 0) + (IF d.extra # None THEN 4 ELSE 0)
    + (IF d.name # None THEN 8 ELSE 0) + (IF d.comment # None THEN 16 ELSE 0)

\* The file of the parts: ID1 ID2 CM FLG MTIME XFL OS, the optional parts in
\* the order of RFC 1952, the DEFLATE data, CRC32 and ISIZE.
GzipFileBytes(d) ==
    <<d.id[1], d.id[2], 8, FlgOf(d), 0, 0, 0, 0, 0, 255>>
    \o (IF d.extra = None THEN <<>>
        ELSE <<Len(d.extra) % 256, Len(d.extra) \div 256>> \o d.extra)
    \o (IF d.name = None THEN <<>> ELSE d.name \o <<0>>)
    \o (IF d.comment = None THEN <<>> ELSE d.comment \o <<0>>)
    \o (IF d.hcrc THEN <<18, 52>> ELSE <<>>)
    \o <<3, 0>> \o <<0, 0, 0, 0, 0, 0, 0, 0>>

GzipInputs == {GzipFileBytes(d) : d \in GzipParts}

\* Every variable of a DeflateData value at rest.
NoDeflateData ==
    /\ input = <<>>
    /\ compressed = <<>>
    /\ decompressed = <<>>
    /\ bitstream = BitVector64_new
    /\ finished = FALSE
    /\ pc = "idle"
    /\ result = "none"
    /\ returned = <<>>
    /\ calls = 0
    /\ headers = <<>>
    /\ blocks = <<>>
    /\ outcomes = <<>>

NoInflate == NoDeflateData /\ overflow_checks = FALSE

\* Some file has been read.
GzipInit ==
    /\ gz_bytes \in GzipInputs
    /\ gz_header = [status |-> "none"]
    /\ NoInflate
    /\ NoPrefixTree
    /\ NoBitVector
    /\ NoBitStream

\* GzipFile::build calls GzipHeader::build on the bytes of the file.
Build ==
    /\ gz_header.status = "none"
    /\ gz_header' = build(gz_bytes)
    /\ UNCHANGED <<gz_bytes, inflate_vars, prefix_vars, bitvec_vars, stream_vars>>

GzipNext == Build

GzipSpec == GzipInit /\ [][GzipNext]_vars

(***************************************************************************)
(* Where RFC 1952 puts the first byte of the DEFLATE data.                 *)
(***************************************************************************)
\* The length of the zero-terminated string at the zero-based offset at.
StringLength(bytes, at) ==
    CHOOSE n \in 0..Len(bytes) :
        bytes[at + n + 1] = 0 /\ \A j \in 0..(n - 1) : bytes[at + j + 1] # 0

AfterExtra(bytes) ==
    10 + IF Bit(bytes[4], 2) = 1 THEN 2 + bytes[11] + 256 * bytes[12] ELSE 0

AfterName(bytes) ==
    AfterExtra(bytes)
    + IF Bit(bytes[4], 3) = 1 THEN StringLength(bytes, AfterExtra(bytes)) + 1 ELSE 0

AfterComment(bytes) ==
    AfterName(bytes)
    + IF Bit(bytes[4], 4) = 1 THEN StringLength(bytes, AfterName(bytes)) + 1 ELSE 0

FirstDeflateByte(bytes) ==
    AfterComment(bytes) + IF Bit(bytes[4], 1) = 1 THEN 2 ELSE 0

\* C13: for a well-formed gzip header, with any of FEXTRA, FNAME, FCOMMENT
\* and FHCRC and any XLEN, GzipHeader::build returns Ok with end_idx the
\* offset of the first DEFLATE byte; for first two bytes other than 1F 8B it
\* returns NotGzipFile.
HeaderEndIndex ==
    gz_header.status # "none" =>
        IF <<gz_bytes[1], gz_bytes[2]>> = <<31, 139>>
        THEN /\ gz_header.status = "Ok"
             /\ gz_header.end_idx = FirstDeflateByte(gz_bytes)
        ELSE gz_header.status = "NotGzipFile"

\* C14: for every distance symbol, the decoded distance is the base of the
\* symbol plus its extra bits read as a number whose first bit is the least
\* significant, whatever the extra bits are, the 9 to 13 extra bits of the
\* symbols 20 to 29 included.
DistanceDecoded ==
    (/\ Len(input) = 1
     /\ input[1].kind \in {"fixed", "dynamic"}
     /\ input[1].m # NoMatch
     /\ Whole
     /\ Len(blocks) >= 1
     /\ blocks[1].note.copies # <<>>)
        => blocks[1].note.copies[1].distance = MatchDistance(input[1].m)

\* C15: for every length symbol 257..284 with extra bits, the decoded copy
\* length is the base of the symbol plus its extra bits read as a number
\* whose first bit is bit 0, whatever the extra bits are.
LengthDecoded ==
    (/\ Len(input) = 1
     /\ input[1].kind \in {"fixed", "dynamic"}
     /\ input[1].m # NoMatch
     /\ LENGTH_EXTRA_BITS[input[1].m[1] - 256] > 0
     /\ Whole
     /\ Len(blocks) >= 1
     /\ blocks[1].note.copies # <<>>)
        => blocks[1].note.copies[1].length = MatchLength(input[1].m)

\* C16: in fixed and in dynamic blocks every length symbol 257..285 is
\* followed by a distance and a copy; symbol 285 copies exactly 258 bytes
\* and has no extra bits; no symbol of the range is passed over.
LengthSymbolsCopy ==
    (/\ Len(input) = 1
     /\ input[1].kind \in {"fixed", "dynamic"}
     /\ input[1].m # NoMatch
     /\ WellFormed(input, 1)
     /\ Whole
     /\ Len(blocks) >= 1)
        => /\ Len(blocks[1].note.copies) = 1
           /\ input[1].m[1] = 285 =>
                  /\ blocks[1].note.copies[1].length = 258
                  /\ Len(blocks[1].after) = Len(input[1].lits) + 258

\* C17: when the literal/length tree gives a symbol above 285, that is 286
\* or 287, decompress returns an error; the symbol is not passed over.
SymbolAbove285Rejected ==
    (/\ Len(input) = 1
     /\ input[1].kind \in {"fixed", "dynamic"}
     /\ \E k \in DOMAIN input[1].lits : input[1].lits[k] > 285
     /\ Whole
     /\ calls = 1
     /\ Ended)
        => result \in Errors

(***************************************************************************)
(* PrefixTree::from_lengths and PrefixTree::walk (src/src/prefix.rs) on    *)
(* their own: a tree is built from some code lengths, then walked bit by   *)
(* bit.                                                                    *)
(***************************************************************************)
\* The code lengths of the vectors explored.
SomeLengths == 0..3

\* Every short vector, and the code lengths of the symbols A to H of the
\* test prefix_generation.
CodeLengthVectors ==
    UNION {[1..n -> SomeLengths] : n \in 1..MaxSymbols}
    \cup {<<3, 3, 3, 3, 3, 2, 4, 4>>}

\* PrefixTree::from_lengths(&code_lengths) for some code lengths.
PrefixInit ==
    /\ pt_lengths \in CodeLengthVectors
    /\ pt_tree = from_lengths(pt_lengths)
    /\ pt_fed = <<>>
    /\ pt_walked = <<>>
    /\ NoInflate
    /\ NoGzip
    /\ NoBitVector
    /\ NoBitStream

\* tree.walk(direction)
Walk(direction) ==
    /\ Len(pt_fed) < MaxWalk
    /\ pt_tree' = walk(pt_tree, direction).tree
    /\ pt_walked' = Append(pt_walked, walk(pt_tree, direction).symbol)
    /\ pt_fed' = Append(pt_fed, direction)
    /\ UNCHANGED <<pt_lengths, inflate_vars, gzip_vars, bitvec_vars, stream_vars>>

PrefixNext == \E direction \in {0, 1} : Walk(direction)

PrefixSpec == PrefixInit /\ [][PrefixNext]_vars

(***************************************************************************)
(* The canonical code of RFC 1951 section 3.2.2 and what decoding with it  *)
(* gives.                                                                  *)
(***************************************************************************)
\* The symbols of L that have a code.
Coded(L) == {s \in 0..(Len(L) - 1) : L[s + 1] > 0}

\* The canonical code of symbol s as a number.
CanonCode(L, s) ==
    ShorterCodes(L, L[s + 1], 1) + Cardinality({j \in 1..s : L[j] = L[s + 1]})

\* What walk returns for each of the bits when it starts at the root.
RECURSIVE WalkAll(_, _)
WalkAll(tree, bits) ==
    IF bits = <<>> THEN <<>>
    ELSE <<walk(tree, Head(bits)).symbol>>
         \o WalkAll(walk(tree, Head(bits)).tree, Tail(bits))

IsPrefix(a, b) == Len(a) <= Len(b) /\ SubSeq(b, 1, Len(a)) = a

\* C18: for code lengths that are a complete prefix code, from_lengths
\* gives every symbol with a length its canonical code, so symbols of equal
\* length have consecutive codes in symbol order and no code is a prefix of
\* another, and walking the bits of a symbol's code from the root, most
\* significant first, returns None for all but the last and the symbol on
\* the last.
CanonicalCodes ==
    Complete(pt_lengths) =>
        \A s \in Coded(pt_lengths) :
            /\ codes_of(pt_lengths)[s + 1] = CanonCode(pt_lengths, s)
            /\ \A t \in Coded(pt_lengths) :
                   /\ (s < t /\ pt_lengths[s + 1] = pt_lengths[t + 1]
                       /\ \A u \in (s + 1)..(t - 1) : pt_lengths[u + 1] # pt_lengths[s + 1])
                          => codes_of(pt_lengths)[t + 1] = codes_of(pt_lengths)[s + 1] + 1
                   /\ s # t => ~IsPrefix(BitsMsb(codes_of(pt_lengths)[s + 1], pt_lengths[s + 1]),
                                         BitsMsb(codes_of(pt_lengths)[t + 1], pt_lengths[t + 1]))
            /\ WalkAll([pt_tree EXCEPT !.current = Root],
                       BitsMsb(codes_of(pt_lengths)[s + 1], pt_lengths[s + 1]))
                   = [k \in 1..pt_lengths[s + 1] |->
                         IF k < pt_lengths[s + 1] THEN NoValue ELSE s]

CodeWalked ==
    /\ pt_lengths = <<3, 3, 3, 3, 3, 2, 4, 4>>
    /\ pt_fed = <<1, 1, 1, 0>>
    /\ pt_walked = <<NoValue, NoValue, NoValue, 6>>

\* What decoding the bits with the canonical code of L gives for bit k, when
\* the code being read began at bit start.
RECURSIVE Decoded(_, _, _, _)
Decoded(L, bits, k, start) ==
    IF k > Len(bits) THEN <<>>
    ELSE LET hit == {s \in Coded(L) : CanonCodeBits(L, s) = SubSeq(bits, start, k)}
         IN  IF hit = {} THEN <<NoValue>> \o Decoded(L, bits, k + 1, start)
             ELSE <<CHOOSE s \in hit : TRUE>> \o Decoded(L, bits, k + 1, k + 1)

\* C19: whenever walk returns a symbol the walker is at the root again, so
\* the next call starts there; the codes of symbols of a complete code fed
\* one after the other give those symbols in order and None for every other
\* bit.
WalkResets ==
    /\ (pt_walked # <<>> /\ pt_walked[Len(pt_walked)] # NoValue)
           => pt_tree.current = Root
    /\ Complete(pt_lengths) => pt_walked = Decoded(pt_lengths, pt_fed, 1, 1)

TwoSymbolsWalked ==
    /\ pt_lengths = <<1, 2, 2>>
    /\ pt_fed = <<1, 0, 0, 1>>
    /\ pt_walked = <<NoValue, 1, 0, NoValue>>
    /\ pt_tree.current # Root

\* C20: a dynamic block whose code lengths, at least two of them nonzero,
\* leave codes unused or claim more codes than there are makes decompress
\* return an error, and no symbol's leaf is overwritten or hidden by the
\* code of another symbol.
IncompleteCodeRejected ==
    (/\ Len(input) = 1
     /\ input[1].kind = "dynamic"
     /\ Cardinality(Coded(LitLenLengths(DynTables[input[1].table]))) >= 2
     /\ ~Complete(LitLenLengths(DynTables[input[1].table]))
     /\ Whole
     /\ calls = 1
     /\ Ended)
        => result \in Errors

\* What block k, a dynamic block, read as its code lengths.
lengths_read(k) == dynamic_lengths([bitstream EXCEPT !.idx = blocks[k].note.at])

\* The code lengths of the distance tree among them.
dist_lengths(cl) == SubSeq(cl.code_lengths, cl.hlit + 258, Len(cl.code_lengths))

\* The tree of L, whose only code has n bits and stands for s, gives s on
\* the last of n zero bits.
OnlyCodeIsZeros(L, s) ==
    WalkAll(from_lengths(L), [j \in 1..L[s + 1] |-> 0])
        = [j \in 1..L[s + 1] |-> IF j < L[s + 1] THEN NoValue ELSE s]

\* C21: the tree from_lengths builds from lengths of which exactly one, n at
\* symbol s, is not zero gives s on the n-th of n zero bits walked from the
\* root; a dynamic block whose only distance code is one bit for distance
\* symbol 0 decodes the bit 0 to that symbol, and the block decodes.
SingleCodeWalked ==
    /\ \A k \in DOMAIN blocks :
           (/\ blocks[k].note.type = 2
            /\ lengths_read(k).status = "done"
            /\ Cardinality(Coded(dist_lengths(lengths_read(k)))) = 1)
               => \A s \in Coded(dist_lengths(lengths_read(k))) :
                      OnlyCodeIsZeros(dist_lengths(lengths_read(k)), s)
    /\ (/\ Len(input) = 1
        /\ input[1].kind = "dynamic"
        /\ DistLengths(DynTables[input[1].table]) = <<1>>
        /\ input[1].m # NoMatch
        /\ WellFormed(input, 1)
        /\ Whole
        /\ calls = 1
        /\ Ended)
           => /\ result = "Ok"
              /\ returned = RefOutput(input, 1)
              /\ blocks[1].note.copies[1].distance = 1

SingleDistanceCodeUsed ==
    /\ Len(input) = 1
    /\ input[1].table = 5
    /\ Len(blocks) = 1
    /\ dist_lengths(lengths_read(1)) = <<1>>
    /\ blocks[1].note.copies # <<>>
    /\ result = "Ok"
    /\ returned = <<65, 65, 65, 65>>

\* What block k, a dynamic block, read as its header.
header_read(k) == dynamic_header([bitstream EXCEPT !.idx = blocks[k].note.at])

\* C22: in a dynamic block, for every HCLEN, the i-th three-bit code length
\* read (i from 0 to HCLEN + 3, first bit least significant) becomes the
\* length of the code-length symbol the order 16, 17, 18, 0, 8, 7, 9, 6, 10,
\* 5, 11, 4, 12, 3, 13, 2, 14, 1, 15 has at place i, and the symbols at the
\* places after HCLEN + 3 get length 0.
CodeLengthOrder ==
    \A k \in DOMAIN blocks :
        (/\ blocks[k].note.type = 2
         /\ blocks[k].note.at + 14 + 3 * (LittleEndian(blocks[k].note.at + 10, 4) + 4)
                <= bitstream.len)
            => /\ header_read(k).hclen = LittleEndian(blocks[k].note.at + 10, 4)
               /\ \A i \in 0..18 :
                      header_read(k).cl_lengths_sorted[CL_ORDER[i + 1] + 1]
                          = IF i <= header_read(k).hclen + 3
                            THEN LittleEndian(blocks[k].note.at + 14 + 3 * i, 3)
                            ELSE 0

AllLengthsPlaced ==
    /\ Len(blocks) = 1
    /\ blocks[1].note.type = 2
    /\ header_read(1).hclen = 15
    /\ header_read(1).cl_lengths_sorted
           = <<4, 2, 0, 6, 4, 2, 0, 6, 5, 7, 1, 3, 5, 7, 1, 3, 1, 2, 3>>

\* The first symbol among those a walk yielded, NoValue when there is none.
RECURSIVE first_symbol(_, _)
first_symbol(walked, i) ==
    IF i > Len(walked) THEN NoValue
    ELSE IF walked[i] # NoValue THEN walked[i]
    ELSE first_symbol(walked, i + 1)

\* The first code-length symbol of block k, a dynamic block: no code of the
\* code-length tree has more than seven bits.
first_code_length_symbol(k) ==
    first_symbol(WalkAll(from_lengths(header_read(k).cl_lengths_sorted),
                         [j \in 1..Min(7, bitstream.len - header_read(k).idx)
                             |-> BitOf(bitstream, header_read(k).idx + j - 1)]),
                 1)

\* C23: a dynamic block whose first code-length symbol is 16, the repeat of
\* a previous length that does not exist, makes decompress return an error
\* and not panic.
RepeatWithoutPreviousRejected ==
    \A k \in DOMAIN blocks :
        (/\ blocks[k].note.type = 2
         /\ header_read(k).idx < bitstream.len
         /\ first_code_length_symbol(k) = 16)
            => /\ blocks[k].status \in Errors
               /\ pc # "dead"

\* The number of code lengths block k, a dynamic block, asks for.
lengths_asked(k) == lengths_read(k).hlit + 257 + lengths_read(k).hdist + 1

\* C24: in a dynamic block a repeat that takes the code lengths beyond
\* HLIT + 257 + HDIST + 1 makes decompress return an error; the vector of
\* code lengths never has more entries than that, and the distance tree is
\* built from exactly HDIST + 1 lengths.
CodeLengthsBounded ==
    \A k \in DOMAIN blocks :
        (blocks[k].note.type = 2 /\ lengths_read(k).status = "done")
            => /\ Len(lengths_read(k).code_lengths) <= lengths_asked(k)
               /\ Len(dist_lengths(lengths_read(k))) = lengths_read(k).hdist + 1

\* Lines 201-206 (and 404-409): the reads `output[idx]` of a copy into an
\* output of n bytes, each with the length of output at that moment.  With
\* distance <= n the read number j has idx = n - distance + j and meets an
\* output of n + j bytes.  With distance > n a build with overflow checks
\* panics before any read; a build without wraps start_idx to
\* 2^64 + n - distance (wrapped, idx keeps n - distance), and when end_idx
\* does not wrap past zero the first read is made there.
copy_reads(n, length, distance, checks) ==
    IF distance <= n
    THEN {[wrapped |-> FALSE, idx |-> n - distance + j, len |-> n + j] :
              j \in 0..(length - 1)}
    ELSE IF checks \/ n - distance + length >= 0 THEN {}
    ELSE {[wrapped |-> TRUE, idx |-> n - distance, len |-> n]}

\* C25: every read of a back-reference copy in block_type_1 and in
\* block_type_2 is made at an index from 0 to below the length output has
\* at the moment of the read, for every decoded length and distance.
CopyReadsInside ==
    \A k \in DOMAIN blocks :
        \A c \in DOMAIN blocks[k].note.copies :
            \A r \in copy_reads(blocks[k].note.copies[c].n,
                                blocks[k].note.copies[c].length,
                                blocks[k].note.copies[c].distance,
                                overflow_checks) :
                ~r.wrapped /\ r.idx >= 0 /\ r.idx < r.len

\* C27: decompress terminates on every finite payload, also when the
\* payload ends inside the code lengths of a dynamic block or inside a
\* distance code, and when the distance tree of a dynamic block is empty:
\* a call is never in a loop that reads nothing more and changes nothing
\* (pc = "spin", the `while` of lines 311-343 and the `loop` of lines
\* 371-378 once no bit is left), so wherever it stands it has ended or
\* takes another step.
DecompressTerminates == pc # "spin"

(***************************************************************************)
(* BitStream (src/src/bitstream.rs): [len, idx, bytes].                    *)
(***************************************************************************)
\* BitStream::new
BitStream_new == [len |-> 0, idx |-> 0, bytes |-> <<>>]

\* A u32 as its 32 bits, most significant first; U32 widens a value below
\* 2^31.
U32(x) == [p \in 1..32 |-> IF p = 1 THEN 0 ELSE Bit(x, 32 - p)]

\* BitIndex::bit_index for u32, lines 270-274: (self >> index) & 1.  A shift
\* by 32 or more overflows: a build with overflow checks panics, a build
\* without shifts by index % 32.  [panic, bit].
bit_index(buffer, index, checks) ==
    IF index >= 32 /\ checks THEN [panic |-> TRUE, bit |-> 0]
    ELSE [panic |-> FALSE, bit |-> buffer[32 - (index % 32)]]

\* (x | bit) for a byte x and a bit.
OrBit(x, bit) == IF x % 2 = 1 THEN x ELSE x + bit

\* BitStream::push_bit, lines 96-135.
BitStream_push_bit(stream, bit) ==
    LET normalized_bit == IF bit = 0 THEN 0 ELSE 1
        bit_index_ == stream.len % 8
        shift == 8 - bit_index_ - 1
        len == Len(stream.bytes)
    IN  IF bit_index_ # 0
        THEN [stream EXCEPT
                 !.bytes[len] = (OrBit(@ \div (2 ^ shift), normalized_bit)
                                 * (2 ^ shift)) % 256,
                 !.len = @ + 1]
        ELSE [stream EXCEPT
                 !.bytes = Append(@, (normalized_bit * 128) % 256),
                 !.len = @ + 1]

\* for i in (lo..=hi).rev() { self.push_bit((byte >> i) & 1) }
RECURSIVE push_partial_bits(_, _, _, _)
push_partial_bits(stream, byte, hi, lo) ==
    IF hi < lo THEN stream
    ELSE push_partial_bits(BitStream_push_bit(stream, Bit(byte, hi)), byte,
                           hi - 1, lo)

\* BitStream::push_partial, lines 156-171.  [err, stream].
BitStream_push_partial(stream, byte, start, end) ==
    IF start > end \/ start >= 8 \/ end >= 8
    THEN [err |-> TRUE, stream |-> stream]
    ELSE [err |-> FALSE,
          stream |-> push_partial_bits(stream, byte, 7 - start, 7 - end)]

\* for i in (lo..=hi).rev() { self.push_bit(buffer.bit_index(i)) }, split
\* in halves; a panic ends the loop.  [panic, stream].
RECURSIVE push_bits(_, _, _, _, _)
push_bits(stream, buffer, hi, lo, checks) ==
    IF hi < lo THEN [panic |-> FALSE, stream |-> stream]
    ELSE IF hi = lo
    THEN IF bit_index(buffer, hi, checks).panic
         THEN [panic |-> TRUE, stream |-> stream]
         ELSE [panic |-> FALSE,
               stream |-> BitStream_push_bit(stream,
                                             bit_index(buffer, hi, checks).bit)]
    ELSE LET mid == (lo + hi) \div 2
             first == push_bits(stream, buffer, hi, mid + 1, checks)
         IN  IF first.panic THEN first
             ELSE push_bits(first.stream, buffer, mid, lo, checks)

\* BitStream::push, lines 186-190: for i in (0..length).rev().
BitStream_push(stream, buffer, length, checks) ==
    push_bits(stream, buffer, length - 1, 0, checks)

(***************************************************************************)
(* A BitStream that is pushed to.                                          *)
(***************************************************************************)
\* The arguments of the calls.
PushedBits == {0, 1, 7}
PartialBytes == {15, 165}
PartialRanges ==
    {<<4, 7>>, <<1, 4>>, <<0, 0>>, <<0, 7>>, <<7, 7>>, <<5, 3>>, <<2, 8>>}
PushBuffers == {U32(819), [p \in 1..32 |-> IF p \in {1, 32} THEN 1 ELSE 0]}
PushLengths == {0, 10, 32, 33}

StreamInit ==
    /\ bit_stream = BitStream_new
    /\ bs_calls = <<>>
    /\ overflow_checks \in BOOLEAN
    /\ NoDeflateData
    /\ NoGzip
    /\ NoPrefixTree
    /\ NoBitVector

\* No call has panicked, and there may be another call.
StreamCallable ==
    /\ Len(bs_calls) < MaxPushes
    /\ \A k \in DOMAIN bs_calls : bs_calls[k].result # "Panic"

\* What the history keeps of a call: the method, its arguments x, a and b,
\* the len of the stream before it and what it returned.
StreamCall(op, x, a, b, res) ==
    [op |-> op, x |-> x, a |-> a, b |-> b, at |-> bit_stream.len,
     result |-> res]

\* stream.push_bit(bit)
PushBit(bit) ==
    /\ StreamCallable
    /\ bit_stream' = BitStream_push_bit(bit_stream, bit)
    /\ bs_calls' = Append(bs_calls, StreamCall("push_bit", bit, 0, 0, "Ok"))
    /\ UNCHANGED <<inflate_vars, gzip_vars, prefix_vars, bitvec_vars>>

\* stream.push_partial(byte, start, end)
PushPartial(byte, start, end) ==
    /\ StreamCallable
    /\ bit_stream' = BitStream_push_partial(bit_stream, byte, start, end).stream
    /\ bs_calls' = Append(bs_calls,
           StreamCall("push_partial", byte, start, end,
                      IF BitStream_push_partial(bit_stream, byte, start, end).err
                      THEN "Err" ELSE "Ok"))
    /\ UNCHANGED <<inflate_vars, gzip_vars, prefix_vars, bitvec_vars>>

\* stream.push(buffer, length)
Push(buffer, length) ==
    /\ StreamCallable
    /\ bit_stream' = BitStream_push(bit_stream, buffer, length, overflow_checks).stream
    /\ bs_calls' = Append(bs_calls,
           StreamCall("push", buffer, 0, length,
                      IF BitStream_push(bit_stream, buffer, length, overflow_checks).panic
                      THEN "Panic" ELSE "Ok"))
    /\ UNCHANGED <<inflate_vars, gzip_vars, prefix_vars, bitvec_vars>>

StreamNext ==
    \/ \E bit \in PushedBits : PushBit(bit)
    \/ \E byte \in PartialBytes, r \in PartialRanges : PushPartial(byte, r[1], r[2])
    \/ \E buffer \in PushBuffers, length \in PushLengths : Push(buffer, length)

StreamSpec == StreamInit /\ [][StreamNext]_vars

\* The bits of a stream in the order of the claim: bit number i (from 0) is
\* bit 7 - (i mod 8) of bytes[i div 8].
StreamBits(stream) ==
    [i \in 1..stream.len |->
        Bit(stream.bytes[((i - 1) \div 8) + 1], 7 - ((i - 1) % 8))]

\* The bits a call is to append: the bit itself (any other value than 0
\* counts as 1); the bits of the byte at the indices start to end counted
\* from the most significant; the length least significant bits of the
\* buffer, the most significant of them first (a u32 has no bits but zeros
\* above its 32).
CallBits(c) ==
    CASE c.op = "push_bit" -> <<IF c.x = 0 THEN 0 ELSE 1>>
      [] c.op = "push_partial" -> [j \in 1..(c.b - c.a + 1) |-> Bit(c.x, 8 - c.a - j)]
      [] OTHER -> [j \in 1..c.b |-> IF c.b - j < 32 THEN c.x[32 - (c.b - j)] ELSE 0]

\* The ranges of the push_partial calls were valid.
ValidRanges ==
    \A k \in DOMAIN bs_calls :
        bs_calls[k].op = "push_partial"
            => bs_calls[k].a <= bs_calls[k].b /\ bs_calls[k].b < 8

\* The len of the stream after call k.
LenAfter(k) == IF k = Len(bs_calls) THEN bit_stream.len ELSE bs_calls[k + 1].at

\* C28: after any sequence of push_bit, push_partial (with a valid range)
\* and push calls, bytes.len() is len / 8 rounded up, the bits are stored
\* from the most significant bit of each byte on in the order they were
\* pushed, the unused low bits of the last byte are 0, push_partial appends
\* the bits of the byte at the indices start to end counted from the most
\* significant, and push appends the n least significant bits of the
\* buffer, the most significant of them first.
StreamKeepsPushedBits ==
    ValidRanges =>
        /\ Len(bit_stream.bytes) = (bit_stream.len + 7) \div 8
        /\ bit_stream.len % 8 # 0 => bit_stream.bytes[Len(bit_stream.bytes)] % (2 ^ (8 - (bit_stream.len % 8))) = 0
        /\ \A k \in DOMAIN bs_calls :
               /\ bs_calls[k].result = "Ok"
               /\ LenAfter(k) = bs_calls[k].at + Len(CallBits(bs_calls[k]))
               /\ SubSeq(StreamBits(bit_stream), bs_calls[k].at + 1, LenAfter(k))
                      = CallBits(bs_calls[k])

(***************************************************************************)
(* A BitVector64 made by from_be_bytes and iterated, or filled by push_bit *)
(* and then pushed to and popped.                                          *)
(***************************************************************************)
\* The raw arguments of from_be_bytes: up to and beyond the first and the
\* second word of the buffer.
RawLengths == {0, 1, 7, 8, 9, 16, 17}
RawByte(p, i) ==
    CASE p = 1 -> (73 * i) % 256
      [] p = 2 -> 255 - ((29 * i) % 256)
      [] OTHER -> IF i % 2 = 1 THEN 1 ELSE 128
RawBytes == {[i \in 1..n |-> RawByte(p, i)] : n \in RawLengths, p \in 1..3}

\* The bits a vector is filled with before the calls: n of them, all 1 or
\* every third 1.
Fills == {0, 1, 62, 63, 64, 65}
FillBits(n, p) == [i \in 1..n |-> IF p = 1 \/ i % 3 = 1 THEN 1 ELSE 0]

\* push_bit for every bit of bits[lo..hi] in turn (split in halves).
RECURSIVE push_all(_, _, _, _)
push_all(bv, bits, lo, hi) ==
    IF lo > hi THEN bv
    ELSE IF lo = hi THEN push_bit(bv, bits[lo]).bv
    ELSE LET mid == (lo + hi) \div 2
             first == push_all(bv, bits, lo, mid)
         IN  IF first.len >= 0 THEN push_all(first, bits, mid + 1, hi) ELSE first

\* What the history keeps of a call: the method, its argument, whether it
\* returned Err, whether it returned Some and which bit, whether it
\* panicked, and whether it left buffer, len and idx as they were.
BitCall(op, arg, err, some, bit, panic, after) ==
    [op |-> op, arg |-> arg, err |-> err, some |-> some, bit |-> bit,
     panic |-> panic, unchanged |-> after = bit_vector]

BitsInit ==
    /\ \/ /\ bv_made = "from_be_bytes"
          /\ bv_raw \in RawBytes
          /\ bit_vector = from_be_bytes(bv_raw)
          /\ bv_pushed = <<>>
       \/ /\ bv_made = "push_bit"
          /\ bv_raw = <<>>
          /\ \E n \in Fills, p \in {1, 2} :
                 /\ bv_pushed = FillBits(n, p)
                 /\ bit_vector = push_all(BitVector64_new, FillBits(n, p), 1, n)
    /\ bv_calls = <<>>
    /\ NoInflate
    /\ NoGzip
    /\ NoPrefixTree
    /\ NoBitStream

\* There may be another call of push_bit or pop_front.
BitCallable ==
    /\ bv_made = "push_bit"
    /\ Len(bv_calls) < MaxBitCalls
    /\ \A k \in DOMAIN bv_calls : ~bv_calls[k].panic

\* bit_vector.push_bit(bit)
BitVectorPushBit(bit) ==
    /\ BitCallable
    /\ bit_vector' = push_bit(bit_vector, bit).bv
    /\ bv_pushed' = IF push_bit(bit_vector, bit).err THEN bv_pushed
                    ELSE Append(bv_pushed, bit)
    /\ bv_calls' = Append(bv_calls,
           BitCall("push_bit", bit, push_bit(bit_vector, bit).err, FALSE, 0,
                   FALSE, push_bit(bit_vector, bit).bv))
    /\ UNCHANGED <<bv_made, bv_raw, inflate_vars, gzip_vars, prefix_vars,
                   stream_vars>>

\* bit_vector.pop_front()
PopFront ==
    /\ BitCallable
    /\ bit_vector' = pop_front(bit_vector).bv
    /\ bv_calls' = Append(bv_calls,
           BitCall("pop_front", 0, FALSE, pop_front(bit_vector).some,
                   pop_front(bit_vector).bit, pop_front(bit_vector).panic,
                   pop_front(bit_vector).bv))
    /\ UNCHANGED <<bv_made, bv_raw, bv_pushed, inflate_vars, gzip_vars,
                   prefix_vars, stream_vars>>

\* bit_vector.next(), until it has returned None.
IterNext ==
    /\ bv_made = "from_be_bytes"
    /\ IF bv_calls = <<>> THEN TRUE ELSE bv_calls[Len(bv_calls)].some
    /\ bit_vector' = BitVector64_next(bit_vector).bv
    /\ bv_calls' = Append(bv_calls,
           BitCall("next", 0, FALSE, BitVector64_next(bit_vector).some,
                   BitVector64_next(bit_vector).bit, FALSE,
                   BitVector64_next(bit_vector).bv))
    /\ UNCHANGED <<bv_made, bv_raw, bv_pushed, inflate_vars, gzip_vars,
                   prefix_vars, stream_vars>>

BitsNext ==
    \/ \E bit \in {0, 1, 2, 255} : BitVectorPushBit(bit)
    \/ PopFront
    \/ IterNext

BitsSpec == BitsInit /\ [][BitsNext]_vars

\* C26: iterating BitVector64::from_be_bytes(B) yields exactly 8 * |B| bits
\* and then None, and bit number k (from 0) is bit k mod 8, counted from
\* the least significant, of byte B[k div 8], also beyond the first 64-bit
\* word of the buffer.
BytesYieldedLsbFirst ==
    bv_made = "from_be_bytes" =>
        /\ Len(bv_calls) <= 8 * Len(bv_raw) + 1
        /\ \A k \in DOMAIN bv_calls :
               IF k <= 8 * Len(bv_raw)
               THEN /\ bv_calls[k].some
                    /\ bv_calls[k].bit = Bit(bv_raw[((k - 1) \div 8) + 1], (k - 1) % 8)
               ELSE ~bv_calls[k].some

AllBytesYielded ==
    /\ bv_made = "from_be_bytes"
    /\ Len(bv_raw) = 17
    /\ bv_raw[9] = 145
    /\ Len(bv_calls) = 137
    /\ bv_calls[65].bit = 1
    /\ bv_calls[66].bit = 0
    /\ bv_calls[136].some
    /\ ~bv_calls[137].some

\* Only push_bit has been called.
OnlyPushBit ==
    bv_made = "push_bit" /\ \A k \in DOMAIN bv_calls : bv_calls[k].op = "push_bit"

\* C29: push_bit with a value other than 0 or 1 returns Err and leaves
\* buffer, len and idx as they were, at every fill level, so that after any
\* sequence of push_bit calls, failed ones included, buffer.len() is
\* len div 64 + 1 and the bits pushed successfully are read back in order.
FailedPushBitChangesNothing ==
    OnlyPushBit =>
        /\ \A k \in DOMAIN bv_calls :
               IF bv_calls[k].arg \in {0, 1}
               THEN ~bv_calls[k].err
               ELSE bv_calls[k].err /\ bv_calls[k].unchanged
        /\ Len(bit_vector.buffer) = (bit_vector.len \div 64) + 1
        /\ bit_vector.len = Len(bv_pushed)
        /\ \A i \in 1..Len(bv_pushed) : BitOf(bit_vector, i - 1) = bv_pushed[i]

\* The bits pushed before call k, and the bits popped before it.
PushedBefore(k) ==
    Len(bv_pushed)
    - Cardinality({j \in k..Len(bv_calls) :
                      bv_calls[j].op = "push_bit" /\ ~bv_calls[j].err})
PoppedBefore(k) ==
    Cardinality({j \in 1..(k - 1) : bv_calls[j].op = "pop_front" /\ bv_calls[j].some})

\* C30: for any interleaving of push_bit (of a 0 or a 1) and pop_front, with
\* no use of next, pop_front returns the oldest bit not yet popped: the
\* k-th successful pop_front returns the k-th pushed bit, and pop_front
\* returns None exactly when every pushed bit has been popped.
PopFrontOldestFirst ==
    (/\ bv_made = "push_bit"
     /\ \A k \in DOMAIN bv_calls :
            bv_calls[k].op = "push_bit" => bv_calls[k].arg \in {0, 1})
        => \A k \in DOMAIN bv_calls :
               bv_calls[k].op = "pop_front"
                   => /\ ~bv_calls[k].panic
                      /\ bv_calls[k].some <=> PoppedBefore(k) < PushedBefore(k)
                      /\ bv_calls[k].some
                             => bv_calls[k].bit = bv_pushed[PoppedBefore(k) + 1]

====
